---- MODULE Spec2Model ----
(***************************************************************************)
(* A model of the multi-provider tool invocation layer                     *)
(* (src/mcp_servers/multiMCP.py): the registry MultiMCP that discovers the *)
(* tools of several provider processes (initialize), and the invoker       *)
(* function_wrapper that parses call syntax, marshals positional arguments *)
(* against a tool's input schema, dispatches through call_tool and         *)
(* normalizes the provider's response.                                     *)
(*                                                                         *)
(* Text (tool names, call strings, response text) is a sequence of         *)
(* one-character strings, so that parsing is modelled by what it does.     *)
(* Python values are tagged records [t, v]; a Python dict is the sequence  *)
(* of its <<key, value>> pairs in insertion order.                         *)
(***************************************************************************)
EXTENDS Integers, Sequences, FiniteSets, TLC

(***************************************************************************)
(* Bounds of the model.                                                    *)
(***************************************************************************)
\* longest list of provider configs given to MultiMCP
MaxProviders == 2
\* largest number of positional arguments of an invoke
MaxArgs == 2

\* the number of concurrent callers of function_wrapper
MaxCallers == 2

\* the number of times initialize() is run again on the same registry
MaxRuns == 1

\* the largest requests_per_minute a RateLimiter under test is built with
MaxRequestsPerMinute == 2

\* the number of acquire() calls on one RateLimiter
MaxAcquires == 4

\* how many times the clock advances
MaxTicks == 6

\* the number of plan versions added to one AgentSession
MaxPlans == 2

\* the length of a list of steps
MaxSteps == 2

\* mcp_server_3.py line 39: requests_per_minute: int = 30
DefaultRequestsPerMinute == 30

\* mcp_server_3.py lines 55 and 60: timedelta(minutes=1), 60 seconds
Minute == 60

(***************************************************************************)
(* Values and ordered dicts.                                               *)
(***************************************************************************)
VInt(n) == [t |-> "int", v |-> n]
VStr(s) == [t |-> "str", v |-> s]
VList(xs) == [t |-> "list", v |-> xs]
VDict(kvs) == [t |-> "dict", v |-> kvs]
VSet(xs) == [t |-> "set", v |-> xs]
VNone == [t |-> "none", v |-> <<>>]
VFloat(x) == [t |-> "float", v |-> x]
VBool(b) == [t |-> "bool", v |-> b]

\* the keys of an ordered dict, in insertion order
Keys(d) == [i \in 1..Len(d) |-> d[i][1]]

HasKey(d, k) == \E i \in 1..Len(d) : d[i][1] = k

\* d[k] for a key the dict holds
Get(d, k) == d[CHOOSE i \in 1..Len(d) : d[i][1] = k][2]

\* d[k] = x: an existing key keeps its position, a new key goes last
DictSet(d, k, x) ==
    IF HasKey(d, k)
    THEN [i \in 1..Len(d) |-> IF d[i][1] = k THEN <<k, x>> ELSE d[i]]
    ELSE Append(d, <<k, x>>)

RECURSIVE DictOfPairs(_)
\* dict(pairs): later pairs overwrite earlier ones
DictOfPairs(ps) ==
    IF ps = <<>> THEN <<>>
    ELSE DictSet(DictOfPairs(SubSeq(ps, 1, Len(ps) - 1)),
                 ps[Len(ps)][1], ps[Len(ps)][2])

Min(a, b) == IF a <= b THEN a ELSE b

\* dict(zip(names, args)): zip stops at the shorter of the two
DictZip(names, args) ==
    DictOfPairs([i \in 1..Min(Len(names), Len(args)) |-> <<names[i], args[i]>>])

(***************************************************************************)
(* Characters and text.                                                    *)
(***************************************************************************)
Digits == {"0", "1", "2", "3", "4", "5", "6", "7", "8", "9"}

Letters == {"a", "b", "c", "d", "e", "f", "g", "h", "i", "j", "k", "l", "m",
            "n", "o", "p", "q", "r", "s", "t", "u", "v", "w", "x", "y", "z",
            "A", "B", "C", "D", "E", "F", "G", "H", "I", "J", "K", "L", "M",
            "N", "O", "P", "Q", "R", "S", "T", "U", "V", "W", "X", "Y", "Z"}

Whitespace == {" ", "\t", "\n", "\r"}

DigitVal(c) ==
    CASE c = "0" -> 0 [] c = "1" -> 1 [] c = "2" -> 2 [] c = "3" -> 3
      [] c = "4" -> 4 [] c = "5" -> 5 [] c = "6" -> 6 [] c = "7" -> 7
      [] c = "8" -> 8 [] c = "9" -> 9

RECURSIVE IntOfDigits(_)
\* int("45") = 45
IntOfDigits(s) ==
    IF s = <<>> THEN 0
    ELSE 10 * IntOfDigits(SubSeq(s, 1, Len(s) - 1)) + DigitVal(s[Len(s)])

RECURSIVE LStrip(_)
LStrip(s) ==
    IF s # <<>> /\ s[1] \in Whitespace THEN LStrip(Tail(s)) ELSE s

RECURSIVE RStrip(_)
RStrip(s) ==
    IF s # <<>> /\ s[Len(s)] \in Whitespace
    THEN RStrip(SubSeq(s, 1, Len(s) - 1)) ELSE s

\* str.strip()
Strip(s) == RStrip(LStrip(s))

\* c in s
Contains(s, c) == \E i \in 1..Len(s) : s[i] = c

\* s.endswith(c)
EndsWith(s, c) == s # <<>> /\ s[Len(s)] = c

RECURSIVE SpanEnd(_, _, _)
\* the first position at or after i whose character is not in set cs
SpanEnd(s, i, cs) ==
    IF i <= Len(s) /\ s[i] \in cs THEN SpanEnd(s, i + 1, cs) ELSE i

(***************************************************************************)
(* The Python expression fragment that ast.parse(text, mode='eval') is     *)
(* modelled on: names, decimal integers, quoted strings without escapes,   *)
(* list displays, unary minus, calls with positional and keyword           *)
(* arguments, attribute access.  Text outside the fragment is a syntax     *)
(* error in the model.                                                     *)
(***************************************************************************)
IdentStart == Letters \cup {"_"}

IdentChars == IdentStart \cup Digits

Quotes == {"'", "\""}

PyPunct == {"(", ")", ",", "=", ".", "[", "]", "-"}

Token(k, s) == [k |-> k, s |-> s]

RECURSIVE QuoteEnd(_, _, _)
\* the position of the closing quote q at or after i, or Len(s) + 1
QuoteEnd(s, i, q) ==
    IF i > Len(s) \/ s[i] = q THEN i ELSE QuoteEnd(s, i + 1, q)

RECURSIVE PyLex(_, _)
\* the tokens of s from position i on; an unreadable piece is a "bad" token
PyLex(s, i) ==
    LET j == SpanEnd(s, i, {" ", "\t"}) IN
    IF j > Len(s) THEN <<>>
    ELSE LET c == s[j] IN
      IF c \in IdentStart
      THEN LET e == SpanEnd(s, j, IdentChars)
           IN  <<Token("name", SubSeq(s, j, e - 1))>> \o PyLex(s, e)
      ELSE IF c \in Digits
      THEN LET e == SpanEnd(s, j, Digits)
               d == SubSeq(s, j, e - 1)
           IN  IF \/ (e <= Len(s) /\ s[e] \in IdentStart)
                  \/ (Len(d) > 1 /\ d[1] = "0" /\ \E n \in 1..Len(d) : d[n] # "0")
               THEN <<Token("bad", d)>>
               ELSE <<Token("int", d)>> \o PyLex(s, e)
      ELSE IF c \in Quotes
      THEN LET e == QuoteEnd(s, j + 1, c)
               body == SubSeq(s, j + 1, e - 1)
           IN  IF e > Len(s) \/ Contains(body, "\\") \/ Contains(body, "\n")
               THEN <<Token("bad", body)>>
               ELSE <<Token("str", body)>> \o PyLex(s, e + 1)
      ELSE IF c \in PyPunct
      THEN <<Token("op", <<c>>)>> \o PyLex(s, j + 1)
      ELSE <<Token("bad", <<c>>)>>

Tok(ts, p) == IF p <= Len(ts) THEN ts[p] ELSE Token("eof", <<>>)

IsOp(ts, p, c) == Tok(ts, p) = Token("op", <<c>>)

\* parse results: ok, the node (or the argument lists), the next position
PyFail == [ok |-> FALSE, node |-> <<>>, p |-> 0]

PyOk(node, p) == [ok |-> TRUE, node |-> node, p |-> p]

NameNode(id) == [t |-> "Name", id |-> id]

ConstantNode(v) == [t |-> "Constant", value |-> v]

ListNode(elts) == [t |-> "List", elts |-> elts]

UnaryOpNode(operand) == [t |-> "UnaryOp", operand |-> operand]

AttributeNode(value, attr) == [t |-> "Attribute", value |-> value, attr |-> attr]

CallNode(func, args, keywords) ==
    [t |-> "Call", func |-> func, args |-> args, keywords |-> keywords]

RECURSIVE PyExpr(_, _)
RECURSIVE PyTrailers(_, _)
RECURSIVE PyElts(_, _, _)
RECURSIVE PyEltsAfter(_, _, _)
RECURSIVE PyArgs(_, _, _, _)
RECURSIVE PyArgsAfter(_, _, _, _, _, _)

PyArgsFail == [ok |-> FALSE, args |-> <<>>, keywords |-> <<>>, p |-> 0]

PyArgsOk(args, kws, p) == [ok |-> TRUE, args |-> args, keywords |-> kws, p |-> p]

\* atom: NAME | INT | STR | '[' elts ']'
PyAtom(ts, p) ==
    CASE Tok(ts, p).k = "name" -> PyOk(NameNode(Tok(ts, p).s), p + 1)
      [] Tok(ts, p).k = "int" ->
           PyOk(ConstantNode(VInt(IntOfDigits(Tok(ts, p).s))), p + 1)
      [] Tok(ts, p).k = "str" -> PyOk(ConstantNode(VStr(Tok(ts, p).s)), p + 1)
      [] IsOp(ts, p, "[") -> PyElts(ts, p + 1, <<>>)
      [] OTHER -> PyFail

\* the elements of a list display up to its ']', a trailing comma allowed
PyElts(ts, p, elts) ==
    IF IsOp(ts, p, "]") THEN PyOk(ListNode(elts), p + 1)
    ELSE PyEltsAfter(ts, elts, PyExpr(ts, p))

\* after the element r of a list display: ',' or ']'
PyEltsAfter(ts, elts, r) ==
    IF ~r.ok THEN PyFail
    ELSE IF IsOp(ts, r.p, ",") THEN PyElts(ts, r.p + 1, Append(elts, r.node))
    ELSE IF IsOp(ts, r.p, "]") THEN PyOk(ListNode(Append(elts, r.node)), r.p + 1)
    ELSE PyFail

\* the arguments of a call up to its ')': positional ones, then keyword ones
PyArgs(ts, p, args, kws) ==
    IF IsOp(ts, p, ")") THEN PyArgsOk(args, kws, p + 1)
    ELSE IF Tok(ts, p).k = "name" /\ IsOp(ts, p + 1, "=")
    THEN PyArgsAfter(ts, args, kws, TRUE, Tok(ts, p).s, PyExpr(ts, p + 2))
    ELSE PyArgsAfter(ts, args, kws, FALSE, <<>>, PyExpr(ts, p))

\* after the argument r (a keyword argument kw=r when iskw): ',' or ')';
\* a positional argument may not follow a keyword argument
PyArgsAfter(ts, args, kws, iskw, kw, r) ==
    IF ~r.ok \/ (~iskw /\ kws # <<>>) THEN PyArgsFail
    ELSE IF IsOp(ts, r.p, ",")
    THEN PyArgs(ts, r.p + 1,
                IF iskw THEN args ELSE Append(args, r.node),
                IF iskw THEN Append(kws, <<kw, r.node>>) ELSE kws)
    ELSE IF IsOp(ts, r.p, ")")
    THEN PyArgsOk(IF iskw THEN args ELSE Append(args, r.node),
                  IF iskw THEN Append(kws, <<kw, r.node>>) ELSE kws, r.p + 1)
    ELSE PyArgsFail

\* the call of func with the parsed arguments a
PyCall(func, a) ==
    IF a.ok THEN PyOk(CallNode(func, a.args, a.keywords), a.p) ELSE PyFail

\* trailers after a primary: '(' arguments ')' or '.' NAME, repeated
PyTrailers(ts, r) ==
    IF ~r.ok THEN r
    ELSE IF IsOp(ts, r.p, "(")
    THEN PyTrailers(ts, PyCall(r.node, PyArgs(ts, r.p + 1, <<>>, <<>>)))
    ELSE IF IsOp(ts, r.p, ".") /\ Tok(ts, r.p + 1).k = "name"
    THEN PyTrailers(ts, PyOk(AttributeNode(r.node, Tok(ts, r.p + 1).s), r.p + 2))
    ELSE r

\* '-' applied to the parsed operand r
PyNeg(r) == IF r.ok THEN PyOk(UnaryOpNode(r.node), r.p) ELSE PyFail

\* expression: '-' expression | atom trailer*
PyExpr(ts, p) ==
    IF IsOp(ts, p, "-") THEN PyNeg(PyExpr(ts, p + 1))
    ELSE PyTrailers(ts, PyAtom(ts, p))

\* the parse r of all the tokens ts, or a syntax error
PyWhole(ts, r) == IF r.ok /\ r.p = Len(ts) + 1 THEN r ELSE PyFail

PyTokens(ts) ==
    IF ts = <<>> \/ \E n \in 1..Len(ts) : ts[n].k = "bad" THEN PyFail
    ELSE PyWhole(ts, PyExpr(ts, 1))

\* ast.parse(text, mode='eval').body: the whole text must be one expression
AstParseEval(text) == PyTokens(PyLex(text, 1))

LitFail == [ok |-> FALSE, value |-> <<>>]

LitOk(v) == [ok |-> TRUE, value |-> v]

RECURSIVE LiteralEval(_)

\* the list of the evaluated elements rs, if each is a literal
LiteralList(rs) ==
    IF \A n \in 1..Len(rs) : rs[n].ok
    THEN LitOk(VList([n \in 1..Len(rs) |-> rs[n].value])) ELSE LitFail

\* ast.literal_eval(node): constants, signed numbers, lists of literals, and
\* the call set() for the empty set
LiteralEval(node) ==
    CASE node.t = "Constant" -> LitOk(node.value)
      [] node.t = "Call" ->
           IF node.func = NameNode(<<"s", "e", "t">>)
              /\ node.args = <<>> /\ node.keywords = <<>>
           THEN LitOk(VSet(<<>>)) ELSE LitFail
      [] node.t = "UnaryOp" ->
           IF node.operand.t = "Constant" /\ node.operand.value.t = "int"
           THEN LitOk(VInt(0 - node.operand.value.v)) ELSE LitFail
      [] node.t = "List" ->
           LiteralList([n \in 1..Len(node.elts) |-> LiteralEval(node.elts[n])])
      [] OTHER -> LitFail

(***************************************************************************)
(* The JSON fragment json.loads is modelled on: objects, arrays, strings   *)
(* without escapes and integers.                                           *)
(***************************************************************************)
CharAt(s, p) == IF p >= 1 /\ p <= Len(s) THEN s[p] ELSE ""

SkipWs(s, p) == SpanEnd(s, p, Whitespace)

JsonFail == [ok |-> FALSE, value |-> <<>>, p |-> 0]

JsonOk(v, p) == [ok |-> TRUE, value |-> v, p |-> p]

\* the string between positions p and e - 1, e the closing quote
JsonStringTo(s, p, e) ==
    IF e > Len(s) \/ Contains(SubSeq(s, p, e - 1), "\\")
                  \/ Contains(SubSeq(s, p, e - 1), "\n")
    THEN JsonFail ELSE JsonOk(VStr(SubSeq(s, p, e - 1)), e + 1)

\* a string whose opening quote is at p - 1
JsonString(s, p) == JsonStringTo(s, p, QuoteEnd(s, p, "\""))

\* the integer whose digits are at b .. e - 1, negative when neg
JsonNumberTo(s, neg, b, e) ==
    IF e = b \/ CharAt(s, e) \in {".", "e", "E"} THEN JsonFail
    ELSE JsonOk(VInt(IF neg THEN 0 - IntOfDigits(SubSeq(s, b, e - 1))
                     ELSE IntOfDigits(SubSeq(s, b, e - 1))), e)

\* the digits from b on: '0' | [1-9][0-9]*
JsonDigits(s, neg, b) ==
    JsonNumberTo(s, neg, b, IF CharAt(s, b) = "0" THEN b + 1 ELSE SpanEnd(s, b, Digits))

\* an integer starting at p: '-'? digits
JsonNumber(s, p) ==
    IF CharAt(s, p) = "-" THEN JsonDigits(s, TRUE, p + 1) ELSE JsonDigits(s, FALSE, p)

RECURSIVE JsonValue(_, _)
RECURSIVE JsonItems(_, _, _)
RECURSIVE JsonItemsAfter(_, _, _)
RECURSIVE JsonMembers(_, _, _)
RECURSIVE JsonMemberValue(_, _, _)
RECURSIVE JsonMembersAfter(_, _, _, _)

\* the items of an array after '[' or ','
JsonItems(s, p, xs) == JsonItemsAfter(s, xs, JsonValue(s, p))

\* after the item r: ',' or ']'
JsonItemsAfter(s, xs, r) ==
    IF ~r.ok THEN JsonFail
    ELSE IF CharAt(s, SkipWs(s, r.p)) = ","
    THEN JsonItems(s, SkipWs(s, r.p) + 1, Append(xs, r.value))
    ELSE IF CharAt(s, SkipWs(s, r.p)) = "]"
    THEN JsonOk(VList(Append(xs, r.value)), SkipWs(s, r.p) + 1)
    ELSE JsonFail

\* the members of an object after '{' or ',': a key, ':', a value
JsonMembers(s, p, d) ==
    IF CharAt(s, SkipWs(s, p)) = "\""
    THEN JsonMemberValue(s, d, JsonString(s, SkipWs(s, p) + 1))
    ELSE JsonFail

\* after the key k: ':' and the value
JsonMemberValue(s, d, k) ==
    IF k.ok /\ CharAt(s, SkipWs(s, k.p)) = ":"
    THEN JsonMembersAfter(s, d, k.value.v, JsonValue(s, SkipWs(s, k.p) + 1))
    ELSE JsonFail

\* after the value r of key: ',' or '}'; a repeated key keeps its last value
JsonMembersAfter(s, d, key, r) ==
    IF ~r.ok THEN JsonFail
    ELSE IF CharAt(s, SkipWs(s, r.p)) = ","
    THEN JsonMembers(s, SkipWs(s, r.p) + 1, DictSet(d, key, r.value))
    ELSE IF CharAt(s, SkipWs(s, r.p)) = "}"
    THEN JsonOk(VDict(DictSet(d, key, r.value)), SkipWs(s, r.p) + 1)
    ELSE JsonFail

\* the value at position q, whitespace skipped
JsonValueAt(s, q) ==
    CASE CharAt(s, q) = "{" ->
           IF CharAt(s, SkipWs(s, q + 1)) = "}"
           THEN JsonOk(VDict(<<>>), SkipWs(s, q + 1) + 1)
           ELSE JsonMembers(s, q + 1, <<>>)
      [] CharAt(s, q) = "[" ->
           IF CharAt(s, SkipWs(s, q + 1)) = "]"
           THEN JsonOk(VList(<<>>), SkipWs(s, q + 1) + 1)
           ELSE JsonItems(s, q + 1, <<>>)
      [] CharAt(s, q) = "\"" -> JsonString(s, q + 1)
      [] CharAt(s, q) = "-" \/ CharAt(s, q) \in Digits -> JsonNumber(s, q)
      [] OTHER -> JsonFail

JsonValue(s, p) == JsonValueAt(s, SkipWs(s, p))

\* the parse r of the whole text, nothing but whitespace after it
JsonWhole(text, r) ==
    IF r.ok /\ SkipWs(text, r.p) = Len(text) + 1 THEN r ELSE JsonFail

\* json.loads(text)
JsonLoads(text) == JsonWhole(text, JsonValue(text, 1))

(***************************************************************************)
(* Providers: configs, tool descriptors and input schemas.                 *)
(* A schema is [properties, defs]: ordered dicts, as the JSON object the   *)
(* provider sends; a property is [type, ref], ref the name of the          *)
(* definition it references ("$ref": "#/$defs/<ref>") or <<>>.             *)
(***************************************************************************)
InputKey == <<"i", "n", "p", "u", "t">>

ResultKey == <<"r", "e", "s", "u", "l", "t">>

Plain(type) == [type |-> type, ref |-> <<>>]

Ref(def) == [type |-> "object", ref |-> def]

Object(props) == [properties |-> props]

Schema(props, defs) == [properties |-> props, defs |-> defs]

Tool(name, description, schema) ==
    [name |-> name, description |-> description, inputSchema |-> schema]

AddInput == <<"A", "d", "d", "I", "n", "p", "u", "t">>

MultiplyInput == <<"M", "u", "l", "I", "n", "p", "u", "t">>

ThumbInput == <<"T", "h", "u", "m", "b", "I", "n", "p", "u", "t">>

BoxModel == <<"B", "o", "x">>

\* tool names
add == <<"a", "d", "d">>

multiply == <<"m", "u", "l", "t", "i", "p", "l", "y">>

no_input == <<"n", "o", "_", "i", "n", "p", "u", "t">>

echo == <<"e", "c", "h", "o">>

thumb == <<"t", "h", "u", "m", "b">>

\* a name no provider declares
nop == <<"n", "o", "p">>

AB == << <<<<"a">>, Plain("integer")>>, <<<<"b">>, Plain("integer")>> >>

\* def add(input: AddInput): one property "input" referencing the only definition
AddSchema ==
    Schema(<< <<InputKey, Ref(AddInput)>> >>, << <<AddInput, Object(AB)>> >>)

\* def multiply(a, b): flat
MultiplyFlatSchema == Schema(AB, <<>>)

\* def no_input(): no property
NoInputSchema == Schema(<<>>, <<>>)

\* def multiply(input: MultiplyInput)
MultiplyWrappedSchema ==
    Schema(<< <<InputKey, Ref(MultiplyInput)>> >>,
           << <<MultiplyInput, Object(AB)>> >>)

\* def echo(input: str): a flat schema whose only property is named "input"
EchoSchema == Schema(<< <<InputKey, Plain("string")>> >>, <<>>)

\* def thumb(input: ThumbInput) with ThumbInput = {path: str, box: Box} and
\* Box = {w: int}: the definitions are listed by name, Box before ThumbInput
ThumbSchema ==
    Schema(<< <<InputKey, Ref(ThumbInput)>> >>,
           << <<BoxModel, Object(<< <<<<"w">>, Plain("integer")>> >>)>>,
              <<ThumbInput, Object(<< <<<<"p", "a", "t", "h">>, Plain("string")>>,
                                      <<<<"b", "o", "x">>, Ref(BoxModel)>> >>)>> >>)

Server4 == "mcp_server_4.py"

Server2 == "mcp_server_2.py"

Config(id, script) == [id |-> id, script |-> script]

\* the provider configs a registry may be given
Configs == {Config("math", Server4), Config("misc", Server2)}

\* what session.list_tools() answers for the provider started from a script
ListTools(script) ==
    IF script = Server4
    THEN << Tool(add, "Adds two numbers.", AddSchema),
            Tool(multiply, "Multiplies two numbers.", MultiplyFlatSchema),
            Tool(no_input, "A test function that takes no input.", NoInputSchema) >>
    ELSE << Tool(multiply, "Multiplies.", MultiplyWrappedSchema),
            Tool(echo, "Echoes.", EchoSchema),
            Tool(thumb, "Thumbnail.", ThumbSchema) >>

RECURSIVE SeqsUpTo(_, _)
\* the sequences over S of length at most n
SeqsUpTo(S, n) ==
    IF n = 0 THEN {<<>>}
    ELSE LET shorter == SeqsUpTo(S, n - 1)
         IN  shorter \cup {Append(q, x) : q \in shorter, x \in S}

(***************************************************************************)
(* MultiMCP.initialize: the registration of one provider's tools.          *)
(***************************************************************************)
\* Entry with a config built for one fixed script instead of the config of
\* the loop
Entry_FixedScript(config, tool) ==
    [config |-> [id |-> config.id, script |-> "mcp_server_4.py"], tool |-> tool]

Entry(config, tool) == [config |-> config, tool |-> tool]

\* RegisterTool with a name that is already registered left as it is
RegisterTool_FirstWins(cat, config, tool) ==
    LET tm == IF HasKey(cat.tool_map, tool.name) THEN cat.tool_map
              ELSE DictSet(cat.tool_map, tool.name, Entry(config, tool))
        st0 == IF HasKey(cat.server_tools, config.id) THEN cat.server_tools
               ELSE DictSet(cat.server_tools, config.id, <<>>)
        st == DictSet(st0, config.id, Append(Get(st0, config.id), tool))
    IN  [tool_map |-> tm, server_tools |-> st]

\* RegisterTool with the tool_map key qualified by the provider id
\* (self.tool_map[f"{config['id']}.{tool.name}"])
RegisterTool_Qualified(cat, config, tool) ==
    LET tm == DictSet(cat.tool_map, <<config.id, ".">> \o tool.name,
                      Entry(config, tool))
        st0 == IF HasKey(cat.server_tools, config.id) THEN cat.server_tools
               ELSE DictSet(cat.server_tools, config.id, <<>>)
        st == DictSet(st0, config.id, Append(Get(st0, config.id), tool))
    IN  [tool_map |-> tm, server_tools |-> st]

\* lines 113-120 for one tool
RegisterTool(cat, config, tool) ==
    LET tm == DictSet(cat.tool_map, tool.name, Entry(config, tool))
        st0 == IF HasKey(cat.server_tools, config.id) THEN cat.server_tools
               ELSE DictSet(cat.server_tools, config.id, <<>>)
        st == DictSet(st0, config.id, Append(Get(st0, config.id), tool))
    IN  [tool_map |-> tm, server_tools |-> st]

RECURSIVE RegisterTools(_, _, _)
\* the loop of lines 112-120 over the tools a provider listed
RegisterTools(cat, config, tools) ==
    IF tools = <<>> THEN cat
    ELSE RegisterTools(RegisterTool(cat, config, Head(tools)), config, Tail(tools))

(***************************************************************************)
(* MultiMCP.function_wrapper and MultiMCP.call_tool, as pure steps.        *)
(***************************************************************************)
Err(type, what, name, expected, actual) ==
    [type |-> type, what |-> what, name |-> name,
     expected |-> expected, actual |-> actual]

NoError == Err("", "", <<>>, 0, 0)

ParseError(tool_name, args) ==
    [ok |-> FALSE, tool_name |-> tool_name, args |-> args,
     error |-> Err("ValueError", "parse", tool_name, 0, 0)]

Parsed(tool_name, args) ==
    [ok |-> TRUE, tool_name |-> tool_name, args |-> args, error |-> NoError]

\* LiteralArgs without the assignment of line 182 (tool_name = expr.func.id)
LiteralArgs_KeepsText(tool_name, func, lits) ==
    IF \A n \in 1..Len(lits) : lits[n].ok
    THEN Parsed(tool_name, [n \in 1..Len(lits) |-> lits[n].value])
    ELSE ParseError(tool_name, <<>>)

\* lines 182-185: the name of the call to func and its evaluated positional
\* arguments lits; the message of a failure here carries the name assigned
LiteralArgs(tool_name, func, lits) ==
    IF \A n \in 1..Len(lits) : lits[n].ok
    THEN Parsed(func.id, [n \in 1..Len(lits) |-> lits[n].value])
    ELSE ParseError(func.id, <<>>)

\* lines 179-185 on the parse r of the stripped string: a call of a bare name
\* with literal positional arguments; the keywords of the call are not read
CallOfName(tool_name, r) ==
    IF r.ok /\ r.node.t = "Call" /\ r.node.func.t = "Name"
    THEN LiteralArgs(tool_name, r.node.func,
                     [n \in 1..Len(r.node.args) |-> LiteralEval(r.node.args[n])])
    ELSE ParseError(tool_name, <<>>)

\* lines 175-185: a single string shaped like a call is parsed into a name
\* and positional arguments
ParseCallSyntax(tool_name, args) ==
    IF Len(args) = 0 /\ EndsWith(Strip(tool_name), ")")
                     /\ Contains(Strip(tool_name), "(")
    THEN CallOfName(tool_name, AstParseEval(Strip(tool_name)))
    ELSE Parsed(tool_name, args)

\* line 198: "input" in schema.get("properties", {})
HasInputProperty(schema) == HasKey(schema.properties, InputKey)

\* lines 199-201 and 206: the parameter names the arguments are zipped with;
\* the inner definition is the first one of "$defs"
ParamNames(schema) ==
    IF HasInputProperty(schema)
    THEN Keys(schema.defs[1][2].properties)
    ELSE Keys(schema.properties)

\* lines 204 and 209
BuildParams(schema, args) ==
    IF HasInputProperty(schema)
    THEN << <<InputKey, VDict(DictZip(ParamNames(schema), args))>> >>
    ELSE DictZip(ParamNames(schema), args)

Marshaled(params) == [ok |-> TRUE, params |-> params, error |-> NoError]

MarshalError(error) == [ok |-> FALSE, params |-> <<>>, error |-> error]

\* lines 198-209 for the schema of the tool found
MarshalWith(schema, tool_name, args) ==
    IF HasInputProperty(schema) /\ schema.defs = <<>>
    THEN MarshalError(Err("KeyError", "defs", tool_name, 0, 0))
    ELSE IF Len(ParamNames(schema)) # Len(args)
    THEN MarshalError(Err("ValueError", "arg_count", tool_name,
                          Len(ParamNames(schema)), Len(args)))
    ELSE Marshaled(BuildParams(schema, args))

\* Marshal with tool_map[tool_name] in place of tool_map.get(tool_name)
Marshal_Subscript(tm, tool_name, args) ==
    IF ~HasKey(tm, tool_name)
    THEN MarshalError(Err("KeyError", "not_found", tool_name, 0, 0))
    ELSE MarshalWith(Get(tm, tool_name).tool.inputSchema, tool_name, args)

\* lines 189-209: look the tool up and build the payload
Marshal(tm, tool_name, args) ==
    IF ~HasKey(tm, tool_name)
    THEN MarshalError(Err("ValueError", "not_found", tool_name, 0, 0))
    ELSE MarshalWith(Get(tm, tool_name).tool.inputSchema, tool_name, args)

\* CallToolTarget with the config of the first catalog entry
CallToolTarget_FirstEntry(tm, tool_name) ==
    IF ~HasKey(tm, tool_name)
    THEN [ok |-> FALSE, script |-> "",
          error |-> Err("ValueError", "not_found", tool_name, 0, 0)]
    ELSE [ok |-> TRUE, script |-> tm[1][2].config.script, error |-> NoError]

\* lines 140-149: the provider call_tool starts, from the entry's config
CallToolTarget(tm, tool_name) ==
    IF ~HasKey(tm, tool_name)
    THEN [ok |-> FALSE, script |-> "",
          error |-> Err("ValueError", "not_found", tool_name, 0, 0)]
    ELSE [ok |-> TRUE, script |-> Get(tm, tool_name).config.script,
          error |-> NoError]

TextPart(text) == [type |-> "text", text |-> text]

\* a content part without a text attribute
ImagePart == [type |-> "image", text |-> <<>>]

Envelope(parts) == [content |-> parts]

Value(v) == [kind |-> "value", value |-> v]

Raw(envelope) == [kind |-> "raw", value |-> envelope]

Raised(error) == [kind |-> "error", value |-> error]

NoResult == [kind |-> "none", value |-> <<>>]

\* Unwrap without the single-key case of lines 221-222
Unwrap_NoSingleKey(parsed) ==
    IF parsed.t = "dict" /\ HasKey(parsed.v, ResultKey)
    THEN Get(parsed.v, ResultKey) ELSE parsed

\* lines 218-225: what is returned for a text that json.loads accepted
Unwrap(parsed) ==
    IF parsed.t = "dict"
    THEN IF HasKey(parsed.v, ResultKey) THEN Get(parsed.v, ResultKey)
         ELSE IF Len(parsed.v) = 1 THEN parsed.v[1][2]
         ELSE parsed
    ELSE parsed

\* lines 216-227 on the result r of json.loads
NormalizeParsed(result, r) == IF r.ok THEN Value(Unwrap(r.value)) ELSE Raw(result)

\* Normalize with the content read outside the try block
Normalize_Unguarded(result) ==
    IF result.content = <<>>
    THEN Raised(Err("IndexError", "content", <<>>, 0, 0))
    ELSE IF result.content[1].type # "text"
    THEN Raised(Err("AttributeError", "text", <<>>, 0, 0))
    ELSE NormalizeParsed(result, JsonLoads(Strip(result.content[1].text)))

\* lines 214-227: any exception on the way falls back to the raw result
Normalize(result) ==
    IF result.content = <<>> \/ result.content[1].type # "text"
    THEN Raw(result)
    ELSE NormalizeParsed(result, JsonLoads(Strip(result.content[1].text)))

(***************************************************************************)
(* The inputs of the model.                                                *)
(***************************************************************************)
DigitChar(d) == CHOOSE c \in Digits : DigitVal(c) = d

RECURSIVE DigitsOf(_)
\* str(n) for n >= 0
DigitsOf(n) ==
    IF n < 10 THEN <<DigitChar(n)>>
    ELSE DigitsOf(n \div 10) \o <<DigitChar(n % 10)>>

RECURSIVE Repr(_)
RECURSIVE JoinReprs(_)

\* repr(v), the literal that denotes a value
Repr(val) ==
    CASE val.t = "int" ->
           IF val.v < 0 THEN <<"-">> \o DigitsOf(0 - val.v) ELSE DigitsOf(val.v)
      [] val.t = "str" -> <<"'">> \o val.v \o <<"'">>
      [] val.t = "list" -> <<"[">> \o JoinReprs(val.v) \o <<"]">>

\* ", ".join(repr(v) for v in vals)
JoinReprs(vals) ==
    IF vals = <<>> THEN <<>>
    ELSE IF Len(vals) = 1 THEN Repr(vals[1])
    ELSE Repr(vals[1]) \o <<",", " ">> \o JoinReprs(Tail(vals))

\* the call string name(l1, ..., ln) of a structured call
CallString(name, args) == name \o <<"(">> \o JoinReprs(args) \o <<")">>

ArgValues == {VInt(45), VStr(<<"h", "i">>)}

ArgTuples == SeqsUpTo(ArgValues, MaxArgs)

InvokeNames == {add, multiply, no_input, echo, thumb, nop}

CallStrings == {CallString(n, a) : n \in InvokeNames, a \in ArgTuples}

\* add(x, 45)
TextNonLiteral ==
    <<"a", "d", "d", "(", "x", ",", " ", "4", "5", ")">>

\* add(45, b=x)
TextKeyword ==
    <<"a", "d", "d", "(", "4", "5", ",", " ", "b", "=", "x", ")">>

\* m.add(45, 45)
TextAttribute ==
    <<"m", ".", "a", "d", "d", "(", "4", "5", ",", " ", "4", "5", ")">>

\*  add( 45 ,45 ) 
TextSpaces ==
    <<" ", "a", "d", "d", "(", " ", "4", "5", " ", ",", "4", "5", " ", ")", " ">>

\* multiply(45, 45,)
TextTrailingComma ==
    <<"m", "u", "l", "t", "i", "p", "l", "y", "(", "4", "5", ",", " ", "4", "5", ",", ")">>

\* add(45, 45
TextUnclosed ==
    <<"a", "d", "d", "(", "4", "5", ",", " ", "4", "5">>

\* add([45, -1], 45)
TextNested ==
    <<"a", "d", "d", "(", "[", "4", "5", ",", " ", "-", "1", "]", ",", " ", "4", "5", ")">>

\* add(nop(45), 45)
TextNestedCall ==
    <<"a", "d", "d", "(", "n", "o", "p", "(", "4", "5", ")", ",", " ", "4", "5", ")">>

\* add(set(), 45)
TextSetCall ==
    <<"a", "d", "d", "(", "s", "e", "t", "(", ")", ",", " ", "4", "5", ")">>

\* add(45, 45, c=x)
TextKeywordExtra ==
    <<"a", "d", "d", "(", "4", "5", ",", " ", "4", "5", ",", " ", "c", "=", "x", ")">>

ExtraTexts ==
    {TextNonLiteral, TextKeyword, TextAttribute, TextSpaces, TextTrailingComma,
     TextUnclosed, TextNested, TextNestedCall, TextSetCall, TextKeywordExtra}

\* function_wrapper(tool_name, *args) as its callers may call it
InvokeInputs ==
    {<<n, a>> : n \in InvokeNames, a \in ArgTuples}
      \cup {<<c, <<>>>> : c \in CallStrings \cup ExtraTexts}
      \cup {<<c, <<v>>>> : c \in ExtraTexts \cup {CallString(add, <<VInt(45)>>)},
                         v \in ArgValues}

\* get_tools_from_servers(selected_servers) as its callers may call it
SelectedServers == {<<>>, <<"math">>, <<"misc", "math">>, <<"math", "none">>}

\* call_tool(tool_name, arguments) as its callers may call it
DirectPayloads ==
    {<<>>, << <<<<"a">>, VInt(45)>>, <<<<"b">>, VInt(45)>> >>}

\* {"result": 7}
TextResult ==
    <<"{", "\"", "r", "e", "s", "u", "l", "t", "\"", ":", " ", "7", "}">>

\* {"k": [1, 2]}
TextSingleKey ==
    <<"{", "\"", "k", "\"", ":", " ", "[", "1", ",", " ", "2", "]", "}">>

\* {"a": 1, "result": 2}
TextResultAmongKeys ==
    <<"{", "\"", "a", "\"", ":", " ", "1", ",", " ", "\"", "r", "e", "s", "u", "l", "t", "\"", ":", " ", "2", "}">>

\* {"a": 1, "b": 2}
TextSeveralKeys ==
    <<"{", "\"", "a", "\"", ":", " ", "1", ",", " ", "\"", "b", "\"", ":", " ", "2", "}">>

\* {}
TextEmptyObject ==
    <<"{", "}">>

\* 7
TextNumber ==
    <<"7">>

\*  {"result": [7]}\n
TextPadded ==
    <<" ", "{", "\"", "r", "e", "s", "u", "l", "t", "\"", ":", " ", "[", "7", "]", "}", "\n">>

\* not-json
TextPlain ==
    <<"n", "o", "t", "-", "j", "s", "o", "n">>

ResponseTexts ==
    {TextResult, TextSingleKey, TextResultAmongKeys, TextSeveralKeys,
     TextEmptyObject, TextNumber, TextPadded, TextPlain}

\* the envelopes a provider may answer a call with
Envelopes ==
    {Envelope(<<TextPart(x)>>) : x \in ResponseTexts}
      \cup {Envelope(<<>>),
            Envelope(<<ImagePart, TextPart(TextResult)>>),
            Envelope(<<TextPart(TextSeveralKeys), TextPart(TextResult)>>),
            Envelope(<<TextPart(TextPlain), TextPart(TextResult)>>)}

(***************************************************************************)
(* The state: one MultiMCP registry, the position of its initialize(), and *)
(* the invoke in progress.                                                 *)
(***************************************************************************)
VARIABLES
    server_configs,  \* MultiMCP.server_configs
    tool_map,        \* MultiMCP.tool_map: name -> [config, tool]
    server_tools,    \* MultiMCP.server_tools: provider id -> list of tools
    init_pc,         \* where initialize() is: idle, connect, handshake, list,
                     \* teardown, done
    init_i,          \* the index of the config initialize() is at
    log,             \* per config: were its tools received (line 111), was an
                     \* error printed for it (lines 122, 124)
    call,            \* the function_wrapper / call_tool invocation in progress
    sessions,        \* the provider sessions that are open: the process, its
                     \* transport and the ClientSession of one async with pair
    calls,           \* the function_wrapper invocations of concurrent callers
    runs,            \* what each earlier run of initialize() on this registry
                     \* left: its catalog and the providers it discovered
    limiter,         \* a RateLimiter: requests_per_minute and requests
    now,             \* the clock, in seconds
    acquiring,       \* per caller of acquire(): idle, or asleep at line 62
                     \* with its local now and the time the sleep ends
    granted,         \* the times at which acquire() has returned
    agent,           \* an AgentSession: plan_versions and state
    lists,           \* the list objects of the callers of the AgentSession
    trace            \* what the AgentSession was called with

limiter_vars == <<limiter, now, acquiring, granted>>

agent_vars == <<agent, lists, trace>>

registry_vars == <<server_configs, tool_map, server_tools, init_pc, init_i, log,
                   call, sessions, calls, runs>>

vars == <<server_configs, tool_map, server_tools, init_pc, init_i, log, call,
          sessions, calls, runs, limiter_vars, agent_vars>>

\* mcp_server_3.py lines 38-46: RateLimiter(requests_per_minute)
RateLimiter(requests_per_minute) ==
    [requests_per_minute |-> requests_per_minute, requests |-> <<>>]

\* a RateLimiter nobody has called yet, at time 0
LimiterInit(rpm) ==
    /\ limiter = RateLimiter(rpm)
    /\ now = 0
    /\ acquiring = <<>>
    /\ granted = <<>>

\* agentSession.py lines 126-144: AgentSession(session_id, original_query)
AgentSession ==
    [plan_versions |-> <<>>,
     state |-> [original_goal_achieved |-> FALSE, final_answer |-> VNone,
                confidence |-> VFloat("0.0"), reasoning_note |-> VStr(<<>>),
                solution_summary |-> VStr(<<>>)]]

\* a new AgentSession, and no list of a caller yet
AgentInit ==
    /\ agent = AgentSession
    /\ lists = <<>>
    /\ trace = [added |-> <<>>, marked |-> <<>>]


IdleCall ==
    [pc |-> "idle", via |-> "none", tool_name |-> <<>>, args |-> <<>>,
     name |-> <<>>, params |-> <<>>, opened |-> <<>>, requests |-> <<>>,
     envelope |-> <<>>, result |-> NoResult]

Init ==
    /\ server_configs \in SeqsUpTo(Configs, MaxProviders)
    /\ tool_map = <<>>
    /\ server_tools = <<>>
    /\ init_pc = "idle"
    /\ init_i = 0
    /\ log = [i \in 1..Len(server_configs) |-> [received |-> FALSE, error |-> FALSE]]
    /\ call = IdleCall
    /\ sessions = {}
    /\ calls = <<>>
    /\ runs = <<>>
    /\ LimiterInit(DefaultRequestsPerMinute)
    /\ AgentInit

\* a session opened by an operation (owner) to the provider started from a
\* script, with the requests sent on it so far
Session(owner, script, events) ==
    [owner |-> owner, script |-> script, events |-> events]

\* async with stdio_client(params) / ClientSession(read, write) is entered
OpenSession(owner, script) ==
    sessions' = sessions \cup {Session(owner, script, <<>>)}

\* requests go out on the session the operation holds
Exchange(owner, events) ==
    sessions' = {IF s.owner = owner THEN [s EXCEPT !.events = @ \o events] ELSE s :
                 s \in sessions}

\* CloseSession that leaves the process and the session behind
CloseSession_Leak(owner) ==
    UNCHANGED sessions

\* the async with blocks are left, by return or by an exception: the session
\* is closed and the process ended
CloseSession(owner) ==
    sessions' = {s \in sessions : s.owner # owner}

Catalog == [tool_map |-> tool_map, server_tools |-> server_tools]

\* the for loop of line 95 moves to the config at index i, or ends
LoopTo(i) ==
    /\ init_i' = i
    /\ init_pc' = IF i <= Len(server_configs) THEN "connect" ELSE "done"

\* InitError leaving the loop instead of going on
InitError_Abort ==
    /\ log' = [log EXCEPT ![init_i].error = TRUE]
    /\ init_i' = init_i
    /\ init_pc' = "done"

\* the except clauses of lines 121-124: print, go on with the next config
InitError ==
    /\ log' = [log EXCEPT ![init_i].error = TRUE]
    /\ LoopTo(init_i + 1)

\* initialize() is called
Initialize ==
    /\ init_pc = "idle"
    /\ LoopTo(1)
    /\ UNCHANGED <<calls, runs, limiter_vars, agent_vars, server_configs, tool_map, server_tools, log, call, sessions>>

\* line 103: the provider process starts, or stdio_client raises
InitConnect(ok) ==
    /\ init_pc = "connect"
    /\ IF ok THEN /\ init_pc' = "handshake"
                  /\ OpenSession("initialize", server_configs[init_i].script)
                  /\ UNCHANGED <<init_i, log>>
       ELSE InitError /\ UNCHANGED sessions
    /\ UNCHANGED <<calls, runs, limiter_vars, agent_vars, server_configs, tool_map, server_tools, call>>

\* line 108: session.initialize() answers or raises
InitHandshake(ok) ==
    /\ init_pc = "handshake"
    /\ IF ok THEN /\ init_pc' = "list"
                  /\ Exchange("initialize", <<"initialize">>)
                  /\ UNCHANGED <<init_i, log>>
       ELSE InitError /\ CloseSession("initialize")
    /\ UNCHANGED <<calls, runs, limiter_vars, agent_vars, server_configs, tool_map, server_tools, call>>

\* lines 110-120: session.list_tools() answers and the tools are registered
\* (no suspension point between the answer and the end of the loop), or raises
InitListTools(ok) ==
    /\ init_pc = "list"
    /\ IF ok
       THEN LET c == RegisterTools(Catalog, server_configs[init_i],
                                   ListTools(server_configs[init_i].script))
            IN  /\ tool_map' = c.tool_map
                /\ server_tools' = c.server_tools
                /\ log' = [log EXCEPT ![init_i].received = TRUE]
                /\ init_pc' = "teardown"
                /\ Exchange("initialize", <<"list_tools">>)
                /\ UNCHANGED init_i
       ELSE InitError /\ CloseSession("initialize")
                      /\ UNCHANGED <<tool_map, server_tools>>
    /\ UNCHANGED <<calls, runs, limiter_vars, agent_vars, server_configs, call>>

\* the exits of the two async with blocks (lines 106, 103), which may raise
InitTeardown(ok) ==
    /\ init_pc = "teardown"
    /\ IF ok THEN LoopTo(init_i + 1) /\ UNCHANGED log
       ELSE InitError
    /\ CloseSession("initialize")
    /\ UNCHANGED <<calls, runs, limiter_vars, agent_vars, server_configs, tool_map, server_tools, call>>

\* the task running initialize() is cancelled at one of its awaits: the
\* CancelledError is no Exception, so lines 121-124 do not catch it; the
\* async with blocks are left and initialize() ends there
InitCancel ==
    /\ init_pc \in {"connect", "handshake", "list", "teardown"}
    /\ init_pc' = "cancelled"
    /\ CloseSession("initialize")
    /\ UNCHANGED <<calls, runs, limiter_vars, agent_vars, server_configs, tool_map, server_tools, init_i, log, call>>

\* the call record of function_wrapper(tool_name, *args) once it has parsed
\* (ps), marshaled (m) and entered call_tool (tg)
Dispatch(tool_name, args, ps, m, tg) ==
    IF ~ps.ok
    THEN [IdleCall EXCEPT !.via = "function_wrapper", !.tool_name = tool_name,
                          !.args = args, !.pc = "done", !.result = Raised(ps.error)]
    ELSE IF ~m.ok
    THEN [IdleCall EXCEPT !.via = "function_wrapper", !.tool_name = tool_name,
                          !.args = args, !.pc = "done", !.name = ps.tool_name,
                          !.result = Raised(m.error)]
    ELSE IF ~tg.ok
    THEN [IdleCall EXCEPT !.via = "function_wrapper", !.tool_name = tool_name,
                          !.args = args, !.pc = "done", !.name = ps.tool_name,
                          !.params = m.params, !.result = Raised(tg.error)]
    ELSE [IdleCall EXCEPT !.via = "function_wrapper", !.tool_name = tool_name,
                          !.args = args, !.pc = "connect", !.name = ps.tool_name,
                          !.params = m.params, !.opened = <<tg.script>>]

\* lines 188-212 for the parsed call ps
LookupAndCall(tm, tool_name, args, ps) ==
    Dispatch(tool_name, args, ps, Marshal(tm, ps.tool_name, ps.args),
             CallToolTarget(tm, ps.tool_name))

\* function_wrapper(tool_name, *args) up to its first suspension point: parse,
\* look up, marshal, and enter call_tool, which starts the owner's process
FunctionWrapper(tool_name, args) ==
    /\ init_pc = "done"
    /\ call.pc = "idle"
    /\ call' = LookupAndCall(tool_map, tool_name, args,
                             ParseCallSyntax(tool_name, args))
    /\ UNCHANGED sessions
    /\ UNCHANGED <<calls, runs, limiter_vars, agent_vars, server_configs, tool_map, server_tools, init_pc, init_i, log>>

\* call_tool(tool_name, arguments) up to its first suspension point
DirectCall(tool_name, arguments, tg) ==
    IF ~tg.ok
    THEN [IdleCall EXCEPT !.via = "call_tool", !.tool_name = tool_name,
                          !.name = tool_name, !.params = arguments,
                          !.pc = "done", !.result = Raised(tg.error)]
    ELSE [IdleCall EXCEPT !.via = "call_tool", !.tool_name = tool_name,
                          !.name = tool_name, !.params = arguments,
                          !.pc = "connect", !.opened = <<tg.script>>]

\* MultiMCP.call_tool(tool_name, arguments) called directly
CallTool(tool_name, arguments) ==
    /\ init_pc = "done"
    /\ call.pc = "idle"
    /\ call' = DirectCall(tool_name, arguments, CallToolTarget(tool_map, tool_name))
    /\ UNCHANGED sessions
    /\ UNCHANGED <<calls, runs, limiter_vars, agent_vars, server_configs, tool_map, server_tools, init_pc, init_i, log>>

\* the request an operation sends after the handshake
RequestOf(via) == IF via = "MCP.list_tools" THEN "list_tools" ELSE "call_tool"

\* ProviderError with the await of line 212 inside a try of function_wrapper
\* whose handler returns None
ProviderError_Swallowed(what) ==
    IF call.via = "function_wrapper" THEN Value(VNone)
    ELSE Raised(Err("ProviderError", what, call.name, 0, 0))

\* lines 151-154 and 212: an exception of the transport or the session leaves
\* call_tool, and function_wrapper, whose try starts at line 214
ProviderError(what) == Raised(Err("ProviderError", what, call.name, 0, 0))

\* line 151: the provider process starts, or stdio_client raises
CallConnect(ok) ==
    /\ call.pc = "connect"
    /\ call' = IF ok THEN [call EXCEPT !.pc = "handshake"]
               ELSE [call EXCEPT !.pc = "done", !.result = ProviderError("start")]
    /\ IF ok THEN OpenSession("invoke", call.opened[1]) ELSE UNCHANGED sessions
    /\ UNCHANGED <<calls, runs, limiter_vars, agent_vars, server_configs, tool_map, server_tools, init_pc, init_i, log>>

\* lines 153-154: the handshake answers and call_tool is sent, or it raises
CallHandshake(ok) ==
    /\ call.pc = "handshake"
    /\ call' =
         IF ok
         THEN [call EXCEPT !.pc = "request",
                 !.requests = Append(@, [session |-> Len(call.opened),
                                         method |-> RequestOf(call.via),
                                         name |-> call.name,
                                         arguments |-> call.params])]
         ELSE [call EXCEPT !.pc = "done", !.result = ProviderError("handshake")]
    /\ IF ok THEN Exchange("invoke", <<"initialize", RequestOf(call.via)>>)
       ELSE CloseSession("invoke")
    /\ UNCHANGED <<calls, runs, limiter_vars, agent_vars, server_configs, tool_map, server_tools, init_pc, init_i, log>>

\* line 154 and lines 214-227: the envelope arrives, the session is left and
\* function_wrapper normalizes the envelope; call_tool returns it as it is
CallRespond(envelope) ==
    /\ call.pc = "request"
    /\ call.via # "MCP.list_tools"
    /\ call' = [call EXCEPT !.pc = "done", !.envelope = <<envelope>>,
                  !.result = IF call.via = "function_wrapper"
                             THEN Normalize(envelope) ELSE Raw(envelope)]
    /\ CloseSession("invoke")
    /\ UNCHANGED <<calls, runs, limiter_vars, agent_vars, server_configs, tool_map, server_tools, init_pc, init_i, log>>

\* line 154: the transport breaks before the answer
CallFail ==
    /\ call.pc = "request"
    /\ call' = [call EXCEPT !.pc = "done", !.result = ProviderError("transport")]
    /\ CloseSession("invoke")
    /\ UNCHANGED <<calls, runs, limiter_vars, agent_vars, server_configs, tool_map, server_tools, init_pc, init_i, log>>

\* the task running the invocation is cancelled at one of its awaits: the
\* CancelledError leaves the async with blocks and reaches the caller (the
\* try of lines 214-227 starts after the await of line 212)
CallCancel ==
    /\ call.pc \in {"connect", "handshake", "request"}
    /\ call' = [call EXCEPT !.pc = "done",
                  !.result = Raised(Err("CancelledError", "cancelled", call.name, 0, 0))]
    /\ CloseSession("invoke")
    /\ UNCHANGED <<calls, runs, limiter_vars, agent_vars, server_configs, tool_map, server_tools, init_pc, init_i, log>>

\* MCP(server_script).call_tool(tool_name, arguments) up to its first
\* suspension point; an MCP object shares nothing with a MultiMCP, it is
\* used here beside one whose initialize() has returned
MCPCallTool(server_script, tool_name, arguments) ==
    /\ init_pc = "done"
    /\ call.pc = "idle"
    /\ call' = [IdleCall EXCEPT !.via = "MCP.call_tool", !.tool_name = tool_name,
                  !.name = tool_name, !.params = arguments, !.pc = "connect",
                  !.opened = <<server_script>>]
    /\ UNCHANGED sessions
    /\ UNCHANGED <<calls, runs, limiter_vars, agent_vars, server_configs, tool_map, server_tools, init_pc, init_i, log>>

\* MCP(server_script).list_tools() up to its first suspension point
MCPListTools(server_script) ==
    /\ init_pc = "done"
    /\ call.pc = "idle"
    /\ call' = [IdleCall EXCEPT !.via = "MCP.list_tools", !.pc = "connect",
                  !.opened = <<server_script>>]
    /\ UNCHANGED sessions
    /\ UNCHANGED <<calls, runs, limiter_vars, agent_vars, server_configs, tool_map, server_tools, init_pc, init_i, log>>

\* MCP.list_tools(): session.list_tools() answers; its tools are returned
MCPListRespond ==
    /\ call.pc = "request"
    /\ call.via = "MCP.list_tools"
    /\ call' = [call EXCEPT !.pc = "done",
                  !.result = Value(ListTools(call.opened[1]))]
    /\ CloseSession("invoke")
    /\ UNCHANGED <<calls, runs, limiter_vars, agent_vars, server_configs, tool_map, server_tools, init_pc, init_i, log>>

\* a synchronous operation of the registry: it ends, with its result, in the
\* step that starts it
Returned(via, result) ==
    /\ init_pc = "done"
    /\ call.pc = "idle"
    /\ call' = [IdleCall EXCEPT !.via = via, !.pc = "done", !.result = result]
    /\ UNCHANGED <<calls, runs, limiter_vars, agent_vars, server_configs, tool_map, server_tools, init_pc, init_i, log,
                   sessions>>

\* list_all_tools(): list(self.tool_map.keys())
ListAllToolsCall == Returned("list_all_tools", Value(Keys(tool_map)))

\* [entry["tool"] for entry in self.tool_map.values()]
AllTools(tm) == [i \in 1..Len(tm) |-> tm[i][2].tool]

\* get_all_tools()
GetAllTools == Returned("get_all_tools", Value(AllTools(tool_map)))

RECURSIVE ToolsFromServers(_, _)
\* lines 286-290: the lists of the selected servers that server_tools holds,
\* put end to end in a new list
ToolsFromServers(st, selected_servers) ==
    IF selected_servers = <<>> THEN <<>>
    ELSE (IF HasKey(st, Head(selected_servers))
          THEN Get(st, Head(selected_servers)) ELSE <<>>)
           \o ToolsFromServers(st, Tail(selected_servers))

\* GetToolsFromServers that extends the first selected server's own list
\* (tools = self.server_tools[server]) instead of a new one
GetToolsFromServers_Aliased(selected_servers) ==
    /\ init_pc = "done"
    /\ call.pc = "idle"
    /\ call' = [IdleCall EXCEPT !.via = "get_tools_from_servers", !.pc = "done",
                  !.result = Value(ToolsFromServers(server_tools, selected_servers))]
    /\ server_tools' =
         IF selected_servers # <<>> /\ HasKey(server_tools, Head(selected_servers))
         THEN DictSet(server_tools, Head(selected_servers),
                      ToolsFromServers(server_tools, selected_servers))
         ELSE server_tools
    /\ UNCHANGED <<calls, runs, limiter_vars, agent_vars, server_configs, tool_map, init_pc, init_i, log, sessions>>

\* get_tools_from_servers(selected_servers)
GetToolsFromServers(selected_servers) ==
    Returned("get_tools_from_servers",
             Value(ToolsFromServers(server_tools, selected_servers)))

\* lines 240-244: the properties a usage example is written from
ExampleProps(schema) ==
    IF HasInputProperty(schema) THEN schema.defs[1][2].properties
    ELSE schema.properties

\* lines 246-252: name(type, ...)  # description; a property without a
\* "type" (a reference) is written as any
Example(tool) ==
    [name |-> tool.name,
     arg_types |-> [i \in 1..Len(ExampleProps(tool.inputSchema)) |->
                      IF ExampleProps(tool.inputSchema)[i][2].ref # <<>> THEN "any"
                      ELSE ExampleProps(tool.inputSchema)[i][2].type],
     description |-> tool.description]

\* lines 238-253 over the tools of get_all_tools()
ToolDescriptions(tools) ==
    IF \E i \in 1..Len(tools) :
         HasInputProperty(tools[i].inputSchema) /\ tools[i].inputSchema.defs = <<>>
    THEN Raised(Err("KeyError", "defs", <<>>, 0, 0))
    ELSE Value([i \in 1..Len(tools) |-> Example(tools[i])])

\* tool_description_wrapper()
ToolDescriptionWrapper ==
    Returned("tool_description_wrapper", ToolDescriptions(AllTools(tool_map)))

\* the caller has the result (or the exception) of the invocation
CallReturn ==
    /\ call.pc = "done"
    /\ call' = IdleCall
    /\ UNCHANGED sessions
    /\ UNCHANGED <<calls, runs, limiter_vars, agent_vars, server_configs, tool_map, server_tools, init_pc, init_i, log>>

Next ==
    \/ Initialize
    \/ \E ok \in BOOLEAN : InitConnect(ok)
    \/ \E ok \in BOOLEAN : InitHandshake(ok)
    \/ \E ok \in BOOLEAN : InitListTools(ok)
    \/ \E ok \in BOOLEAN : InitTeardown(ok)
    \/ InitCancel
    \/ \E in \in InvokeInputs : FunctionWrapper(in[1], in[2])
    \/ \E n \in InvokeNames, a \in DirectPayloads : CallTool(n, a)
    \/ \E ok \in BOOLEAN : CallConnect(ok)
    \/ \E ok \in BOOLEAN : CallHandshake(ok)
    \/ \E e \in Envelopes : CallRespond(e)
    \/ CallFail
    \/ CallCancel
    \/ \E c \in Configs, a \in DirectPayloads \ {<<>>} :
         MCPCallTool(c.script, multiply, a)
    \/ \E c \in Configs : MCPListTools(c.script)
    \/ MCPListRespond
    \/ ListAllToolsCall
    \/ GetAllTools
    \/ \E sel \in SelectedServers : GetToolsFromServers(sel)
    \/ ToolDescriptionWrapper
    \/ CallReturn

Spec == Init /\ [][Next]_vars

(***************************************************************************)
(* Properties.                                                             *)
(***************************************************************************)
\* MultiMCP.list_all_tools(): list(self.tool_map.keys())
ListAllTools == Keys(tool_map)

\* the tools the provider of config i declares
Declared(i) == ListTools(server_configs[i].script)

DeclaredNames(i) ==
    LET tools == Declared(i)
    IN  {tools[k].name : k \in 1..Len(tools)}

\* the configs whose provider answered list_tools
Discovered == {i \in 1..Len(server_configs) : log[i].received}

\* the configs whose provider failed to start, to shake hands or to list
Failed == {i \in 1..Len(server_configs) : log[i].error /\ ~log[i].received}

Max(S) == CHOOSE x \in S : \A y \in S : y <= x

\* the discovered config latest in declaration order that declares name n
LastDeclarer(n) == Max({i \in Discovered : n \in DeclaredNames(i)})

\* the descriptor of n in the listing of config i (the last one of that name)
DescriptorOf(i, n) ==
    LET tools == Declared(i)
    IN  tools[Max({k \in 1..Len(tools) : tools[k].name = n})]

NoDuplicates(q) == \A a, b \in 1..Len(q) : q[a] = q[b] => a = b

Range(q) == {q[k] : k \in 1..Len(q)}

\* C1: after initialize() the tool names listed are exactly those declared by
\* the discovered providers, each once, and a name declared by several of them
\* holds the descriptor and config of the latest one in declaration order
C1_CatalogIsUnionLastWins ==
    init_pc = "done" =>
      /\ NoDuplicates(ListAllTools)
      /\ Range(ListAllTools) = UNION {DeclaredNames(i) : i \in Discovered}
      /\ \A n \in Range(ListAllTools) :
           LET last == LastDeclarer(n)
           IN  Get(tool_map, n) = Entry(server_configs[last], DescriptorOf(last, n))

C1_Witness ==
    /\ init_pc = "done"
    /\ Len(server_configs) = 2
    /\ server_configs[1].script # server_configs[2].script
    /\ Discovered = {1, 2}
    /\ \E n \in DeclaredNames(1) \cap DeclaredNames(2) :
         /\ Get(tool_map, n).config = server_configs[2]
         /\ DescriptorOf(1, n) # DescriptorOf(2, n)

\* C2: an invoke of a catalog tool starts exactly one session, to the provider
\* that owns the name (the latest discovered one declaring it), and the only
\* request it sends is call_tool with that name and the marshaled payload
C2_DispatchToOwner ==
  call.via \in {"function_wrapper", "call_tool"} =>
    /\ (call.opened # <<>> \/ (call.via = "call_tool" /\ HasKey(tool_map, call.name)))
         => /\ HasKey(tool_map, call.name)
            /\ call.opened = <<server_configs[LastDeclarer(call.name)].script>>
            /\ call.opened = <<Get(tool_map, call.name).config.script>>
    /\ call.pc = "request" => Len(call.requests) = 1
    /\ \A k \in 1..Len(call.requests) :
         call.requests[k] = [session |-> 1, method |-> "call_tool",
                             name |-> call.name, arguments |-> call.params]
    /\ (call.via = "function_wrapper" /\ call.opened # <<>>)
         => LET ps == ParseCallSyntax(call.tool_name, call.args)
            IN  /\ call.name = ps.tool_name
                /\ call.params = Marshal(tool_map, ps.tool_name, ps.args).params

C2_Witness ==
    /\ call.pc = "request"
    /\ call.via = "function_wrapper"
    /\ call.name = multiply
    /\ Discovered = {1, 2}
    /\ server_configs[1].script = Server2
    /\ server_configs[2].script = Server4
    /\ call.opened = <<Server4>>
    /\ call.requests[1].arguments = << <<<<"a">>, VInt(45)>>, <<<<"b">>, VStr(<<"h", "i">>)>> >>

RECURSIVE Replay(_, _)
\* the catalog initialize() builds over configs cfgs when every provider answers
Replay(cat, cfgs) ==
    IF cfgs = <<>> THEN cat
    ELSE Replay(RegisterTools(cat, Head(cfgs), ListTools(Head(cfgs).script)),
                Tail(cfgs))

RECURSIVE Without(_, _, _)
\* cfgs from index i on, without the indices in set drop
Without(cfgs, i, drop) ==
    IF i > Len(cfgs) THEN <<>>
    ELSE IF i \in drop THEN Without(cfgs, i + 1, drop)
    ELSE <<cfgs[i]>> \o Without(cfgs, i + 1, drop)

EmptyCatalog == [tool_map |-> <<>>, server_tools |-> <<>>]

\* C3: providers that fail to start, to shake hands or to list do not stop
\* initialize(): every config is attempted, and the catalog is the one built
\* from the configs without the failed ones
C3_FailuresAreSkipped ==
    init_pc = "done" =>
      /\ init_i = Len(server_configs) + 1
      /\ \A i \in 1..Len(server_configs) : log[i].received \/ log[i].error
      /\ Catalog = Replay(EmptyCatalog, Without(server_configs, 1, Failed))

C3_Witness ==
    /\ init_pc = "done"
    /\ Len(server_configs) = 2
    /\ Failed = {1}
    /\ Discovered = {2}
    /\ tool_map # <<>>

\* the single-string form of function_wrapper: no args and a text shaped like a call
CallShaped(text) == EndsWith(Strip(text), ")") /\ Contains(Strip(text), "(")

Structured ==
    \/ call.via = "call_tool"
    \/ call.via = "function_wrapper" /\ (Len(call.args) > 0 \/ ~CallShaped(call.tool_name))

\* C4: a structured invoke of a name the catalog does not hold fails with the
\* not-found ValueError, whatever the arguments, and opens no session
C4_AbsentNameNotFound ==
    (Structured /\ ~HasKey(tool_map, call.tool_name)) =>
      /\ call.pc = "done"
      /\ call.result = Raised(Err("ValueError", "not_found", call.tool_name, 0, 0))
      /\ call.opened = <<>>
      /\ call.requests = <<>>

C4_Witness ==
    /\ call.via = "function_wrapper"
    /\ call.tool_name = add
    /\ Len(call.args) = 2
    /\ ~HasKey(tool_map, add)
    /\ tool_map # <<>>
    /\ call.result.kind = "error"

\* the schema shapes of the specification: Wrapped is one top-level property
\* that references a definition, Flat is every other schema
IsWrapped(schema) ==
    Len(schema.properties) = 1 /\ schema.properties[1][2].ref # <<>>

\* the declared parameters of a tool: the properties of the referenced
\* definition for Wrapped, the top-level properties for Flat
DeclaredParams(schema) ==
    IF IsWrapped(schema)
    THEN Keys(Get(schema.defs, schema.properties[1][2].ref).properties)
    ELSE Keys(schema.properties)

\* the pairs {p_i: a_i} in declared order
Zipped(names, args) == [i \in 1..Len(names) |-> <<names[i], args[i]>>]

\* a structured function_wrapper(name, a1, ..., am) of a catalog tool
StructuredInvoke ==
    /\ call.via = "function_wrapper"
    /\ Len(call.args) > 0 \/ ~CallShaped(call.tool_name)
    /\ HasKey(tool_map, call.tool_name)

InvokedSchema == Get(tool_map, call.tool_name).tool.inputSchema

\* the call reached call_tool with this payload
SentPayload(payload) ==
    /\ call.opened # <<>>
    /\ call.params = payload
    /\ \A k \in 1..Len(call.requests) : call.requests[k].arguments = payload

\* C5: for a Flat schema with properties p1..pn, function_wrapper(name, a1..an)
\* sends exactly {p1: a1, ..., pn: an}
C5_FlatPayload ==
    (/\ StructuredInvoke
     /\ ~IsWrapped(InvokedSchema)
     /\ Len(call.args) = Len(InvokedSchema.properties))
      => SentPayload(Zipped(Keys(InvokedSchema.properties), call.args))

\* C6: for a Wrapped schema, function_wrapper(name, a1..an) sends exactly
\* {"input": {p1: a1, ..., pn: an}}, p1..pn the properties of the definition
\* that the single top-level property references
C6_WrappedPayload ==
    (/\ StructuredInvoke
     /\ IsWrapped(InvokedSchema)
     /\ Len(call.args) = Len(DeclaredParams(InvokedSchema)))
      => SentPayload(<< <<InputKey,
                          VDict(Zipped(DeclaredParams(InvokedSchema), call.args))>> >>)

\* C7: for a catalog tool with n declared parameters, a call with m # n
\* arguments fails with the argument-count error (expected n, actual m) and
\* opens no session
C7_ArgumentCount ==
    (/\ StructuredInvoke
     /\ Len(call.args) # Len(DeclaredParams(InvokedSchema)))
      => /\ call.pc = "done"
         /\ call.result = Raised(Err("ValueError", "arg_count", call.tool_name,
                                     Len(DeclaredParams(InvokedSchema)),
                                     Len(call.args)))
         /\ call.opened = <<>>
         /\ call.requests = <<>>

\* function_wrapper has received the envelope of its call
Answered == call.via = "function_wrapper" /\ call.envelope # <<>>

\* the first content part of the envelope is text that json.loads accepts
FirstPartParses ==
    /\ call.envelope[1].content # <<>>
    /\ call.envelope[1].content[1].type = "text"
    /\ JsonLoads(Strip(call.envelope[1].content[1].text)).ok

FirstPartValue == JsonLoads(Strip(call.envelope[1].content[1].text)).value

\* C8: when the first content part's text parses, function_wrapper returns the
\* value under "result" if the parsed mapping has that key, else the sole value
\* of a one-key mapping, else a several-key mapping itself, and a parsed value
\* that is no mapping itself; the other content parts are not consulted
C8_NormalizedValue ==
    (Answered /\ FirstPartParses) =>
      /\ call.pc = "done"
      /\ call.result.kind = "value"
      /\ LET parsed == FirstPartValue
             res == call.result.value
         IN  /\ (parsed.t = "dict" /\ HasKey(parsed.v, ResultKey))
                  => res = Get(parsed.v, ResultKey)
             /\ (parsed.t = "dict" /\ ~HasKey(parsed.v, ResultKey) /\ Len(parsed.v) = 1)
                  => res = parsed.v[1][2]
             /\ (parsed.t = "dict" /\ ~HasKey(parsed.v, ResultKey) /\ Len(parsed.v) > 1)
                  => res = parsed
             /\ parsed.t # "dict" => res = parsed

C8_Witness ==
    /\ Answered
    /\ call.envelope[1] = Envelope(<<TextPart(TextResultAmongKeys)>>)
    /\ call.result = Value(VInt(2))

\* C9: once the envelope has arrived function_wrapper returns a value and never
\* raises: an envelope without content parts, with a first part that has no
\* text, or with text that does not parse is returned unchanged
C9_NormalizationNeverRaises ==
    Answered =>
      /\ call.pc = "done"
      /\ call.result.kind \in {"value", "raw"}
      /\ ~FirstPartParses => call.result = Raw(call.envelope[1])

C9_Witness ==
    /\ Answered
    /\ call.envelope[1] = Envelope(<<ImagePart, TextPart(TextResult)>>)
    /\ call.result = Raw(Envelope(<<ImagePart, TextPart(TextResult)>>))

\* the call strings name(l1, ..., ln), tabulated by name and argument list
CallStringOf == [n \in InvokeNames, a \in ArgTuples |-> CallString(n, a)]

\* what function_wrapper(n, a1, ..., am) does up to its first suspension point
StructuredOutcome(n, a) ==
    LookupAndCall(tool_map, n, a, ParseCallSyntax(n, a))

\* C10: a call string name(l1, ..., ln) of literals is handled as the
\* structured call (name, [v1, ..., vn]): same lookup, same payload, same
\* provider, same error, and the same normalization of the answer
C10_CallStringAsStructured ==
    \A n \in InvokeNames, a \in ArgTuples :
      (/\ call.via = "function_wrapper"
       /\ call.args = <<>>
       /\ call.tool_name = CallStringOf[n, a])
        => LET so == StructuredOutcome(n, a)
           IN  /\ call.name = so.name
               /\ call.params = so.params
               /\ call.opened = so.opened
               /\ (so.pc = "done") = (call.opened = <<>>)
               /\ call.opened = <<>> => call.result = so.result
               /\ \A k \in 1..Len(call.requests) :
                    /\ call.requests[k].name = n
                    /\ call.requests[k].arguments = so.params
               /\ call.envelope # <<>> => call.result = Normalize(call.envelope[1])

\* multiply(45, 'hi')
C10_Witness ==
    /\ call.via = "function_wrapper"
    /\ call.args = <<>>
    /\ call.tool_name = <<"m", "u", "l", "t", "i", "p", "l", "y", "(", "4", "5",
                          ",", " ", "'", "h", "i", "'", ")">>
    /\ call.pc = "request"
    /\ call.opened = <<Server4>>
    /\ call.requests[1].name = multiply
    /\ call.requests[1].arguments =
         << <<<<"a">>, VInt(45)>>, <<<<"b">>, VStr(<<"h", "i">>)>> >>

\* the literals of the call syntax: numbers, strings and lists of literals
RECURSIVE IsLiteral(_)
IsLiteral(node) ==
    CASE node.t = "Constant" -> TRUE
      [] node.t = "UnaryOp" -> node.operand.t = "Constant" /\ node.operand.value.t = "int"
      [] node.t = "List" -> \A n \in 1..Len(node.elts) : IsLiteral(node.elts[n])
      [] OTHER -> FALSE

\* function_wrapper was given a single string that it takes for a call string
CallStringInvoke ==
    /\ call.via = "function_wrapper"
    /\ call.args = <<>>
    /\ CallShaped(call.tool_name)

\* the expression the call string of the invoke in progress is
CallStringExpr == AstParseEval(Strip(call.tool_name))

\* the call string is a call of a bare name
IsCallOfBareName(r) == r.ok /\ r.node.t = "Call" /\ r.node.func.t = "Name"

\* the invoke failed with a ValueError (the type of the parse error; the
\* message is left open) and reached no provider
FailedToParse ==
    /\ call.pc = "done"
    /\ call.result.kind = "error"
    /\ call.result.value.type = "ValueError"
    /\ call.opened = <<>>
    /\ call.requests = <<>>

\* C11: a call string whose callee is not a bare name, or one of whose
\* positional arguments is not a literal (a name, an attribute access, a
\* nested call), fails with the ValueError and nothing is dispatched
C11_NonLiteralFailsToParse ==
    (/\ CallStringInvoke
     /\ \/ ~IsCallOfBareName(CallStringExpr)
        \/ \E n \in 1..Len(CallStringExpr.node.args) :
             ~IsLiteral(CallStringExpr.node.args[n]))
      => FailedToParse

\* C12: a call string that carries anything but positional literals between
\* its parentheses (keyword arguments) fails with the ValueError; it is
\* never dispatched with a part of what was written
C12_KeywordsFailToParse ==
    (/\ CallStringInvoke
     /\ IsCallOfBareName(CallStringExpr)
     /\ CallStringExpr.node.keywords # <<>>)
      => FailedToParse

\* the sessions an operation holds open
SessionsOf(owner) == {s \in sessions : s.owner = owner}

\* what may have gone out on a session: nothing yet, the handshake, or the
\* handshake followed by one request
OneExchange(events) ==
    events \in {<<>>, <<"initialize">>, <<"initialize", "list_tools">>,
                <<"initialize", "call_tool">>}

\* C13: a session carries the handshake first and then at most one request,
\* an operation holds at most one session at a time (to the provider it is
\* at), and once an operation has returned, failed or been cancelled, or
\* initialize() has gone on to the next provider, no session of it is open
C13_OneExchangePerSession ==
    /\ \A s \in sessions : OneExchange(s.events)
    /\ Cardinality(SessionsOf("initialize")) <= 1
    /\ Cardinality(SessionsOf("invoke")) <= 1
    /\ init_pc \in {"idle", "connect", "done", "cancelled"}
         => SessionsOf("initialize") = {}
    /\ init_pc \in {"handshake", "list", "teardown"}
         => \A s \in SessionsOf("initialize") :
              /\ s.script = server_configs[init_i].script
              /\ (init_pc = "teardown") = (s.events = <<"initialize", "list_tools">>)
    /\ call.pc \in {"idle", "connect", "done"} => SessionsOf("invoke") = {}
    /\ call.pc \in {"handshake", "request"}
         => \A s \in SessionsOf("invoke") :
              /\ s.script = call.opened[1]
              /\ (call.pc = "request") = (Len(s.events) = 2)
    /\ Len(call.opened) <= 1
    /\ Len(call.requests) <= 1
    /\ call.envelope # <<>> => Len(call.requests) = 1

\* a call_tool cancelled while it waits for the answer to its request
C13_Witness ==
    /\ call.via = "call_tool"
    /\ call.pc = "done"
    /\ call.result = Raised(Err("CancelledError", "cancelled", multiply, 0, 0))
    /\ Len(call.requests) = 1
    /\ Len(server_configs) = 2
    /\ sessions = {}

\* C14: once initialize() has returned, no step of function_wrapper,
\* call_tool, list_all_tools, get_all_tools, get_tools_from_servers or
\* tool_description_wrapper, successful or failing, changes tool_map or
\* server_tools
C14_CatalogImmutable ==
    [][init_pc = "done" => /\ tool_map' = tool_map
                           /\ server_tools' = server_tools
                           /\ init_pc' = "done"]_vars

\* get_tools_from_servers(["misc", "math"]) has returned the six tools of the
\* two providers
C14_Witness ==
    /\ init_pc = "done"
    /\ call.via = "get_tools_from_servers"
    /\ call.pc = "done"
    /\ call.result.kind = "value"
    /\ Len(call.result.value) = 6
    /\ Len(tool_map) = 5

\* C17: in every state of initialize(), finished or not, a tool held in some
\* provider's list of server_tools has an entry in tool_map under its name
\* (the entry is the latest declarer's: see C1)
C17_ListedToolsAreInToolMap ==
    \A i \in 1..Len(server_tools) :
      \A k \in 1..Len(server_tools[i][2]) :
        HasKey(tool_map, server_tools[i][2][k].name)

\* initialize() has finished with two providers that both declare multiply:
\* the first one's multiply is still listed under its id, and tool_map holds
\* the second one's under that name
C17_Witness ==
    /\ init_pc = "done"
    /\ Len(server_configs) = 2
    /\ Failed = {}
    /\ HasKey(server_tools, server_configs[1].id)
    /\ \E k \in 1..Len(Get(server_tools, server_configs[1].id)) :
         /\ Get(server_tools, server_configs[1].id)[k].name = multiply
         /\ Get(tool_map, multiply).tool
              # Get(server_tools, server_configs[1].id)[k]

\* the payload has the Wrapped form {"input": {...}}
WrappedForm(payload) ==
    /\ Keys(payload) = <<InputKey>>
    /\ payload[1][2].t = "dict"

\* the invocation ended in an exception of this type
RaisedType(type) == call.result.kind = "error" /\ call.result.value.type = type

\* C18: function_wrapper marshals a schema as Wrapped exactly when it is one
\* top-level property that references a definition; any other schema is
\* marshaled as Flat from its top-level properties without failing, whatever
\* its single property is named; tool_description_wrapper reads the schemas
\* of the catalog by the same test and does not fail either
C18_WrappedExactlyWhenReference ==
    /\ StructuredInvoke =>
         /\ ~RaisedType("KeyError")
         /\ call.opened # <<>> =>
              IF IsWrapped(InvokedSchema) THEN WrappedForm(call.params)
              ELSE call.params = Zipped(Keys(InvokedSchema.properties), call.args)
    /\ call.via = "tool_description_wrapper" => ~RaisedType("KeyError")

\* lines 90-124: initialize() has no return statement; the errors of lines
\* 122 and 124 are printed, and the caller of initialize() is handed None
InitializeResult == VNone

\* the providers a result of initialize() warns its caller about
WarnedProviders(result) ==
    IF result.t = "list" THEN {result.v[k] : k \in 1..Len(result.v)} ELSE {}

\* C19: when initialize() has returned, its caller holds one warning for each
\* provider whose discovery failed and none for a discovered provider
C19_WarningsForFailedProviders ==
    init_pc = "done" => WarnedProviders(InitializeResult) = Failed

\* an invoke through function_wrapper has ended because the provider could
\* not be started, the handshake failed or the transport broke
ProviderFailedInvoke ==
    /\ call.via = "function_wrapper"
    /\ call.pc = "done"
    /\ call.opened # <<>>
    /\ call.envelope = <<>>
    /\ ~RaisedType("CancelledError")

\* C20: an invoke that ends by a provider failure has raised that failure to
\* the caller of function_wrapper; it leaves no session behind, and the one
\* step from there hands the registry back idle with its catalog as it was
\* before the call, which is the state any later invoke starts from
C20_ProviderFailureRaisedAndConfined ==
    [][ProviderFailedInvoke =>
         /\ RaisedType("ProviderError")
         /\ call.result.value.what \in {"start", "handshake", "transport"}
         /\ sessions = {}
         /\ call' = IdleCall
         /\ sessions' = {}
         /\ UNCHANGED <<server_configs, tool_map, server_tools, init_pc,
                        init_i, log>>]_vars

\* a function_wrapper call of multiply whose provider broke the transport
\* after the request was sent
C20_Witness ==
    /\ ProviderFailedInvoke
    /\ call.name = multiply
    /\ Len(call.requests) = 1
    /\ RaisedType("ProviderError")
    /\ call.result.value.what = "transport"
    /\ Len(tool_map) = 5

\* an exchange with a provider is pending: the handshake or the request has
\* been sent and the registry awaits the answer (lines 108, 110, 153, 154)
PendingExchange ==
    \/ init_pc \in {"handshake", "list"}
    \/ call.pc \in {"handshake", "request"}

\* the steps the registry takes by itself: every step of Next but the answers
\* and failures of a provider (InitHandshake, InitListTools, CallHandshake,
\* CallRespond, CallFail, MCPListRespond) and the cancellations by the caller
RegistryStep ==
    \/ Initialize
    \/ \E ok \in BOOLEAN : InitConnect(ok)
    \/ \E ok \in BOOLEAN : InitTeardown(ok)
    \/ \E in \in InvokeInputs : FunctionWrapper(in[1], in[2])
    \/ \E n \in InvokeNames, a \in DirectPayloads : CallTool(n, a)
    \/ \E ok \in BOOLEAN : CallConnect(ok)
    \/ \E c \in Configs, a \in DirectPayloads \ {<<>>} :
         MCPCallTool(c.script, multiply, a)
    \/ \E c \in Configs : MCPListTools(c.script)
    \/ ListAllToolsCall
    \/ GetAllTools
    \/ \E sel \in SelectedServers : GetToolsFromServers(sel)
    \/ ToolDescriptionWrapper
    \/ CallReturn

\* C16: an exchange with a provider is bounded in time: while one is pending
\* the registry has a step of its own that ends the wait (the timeout), so
\* that a provider that never answers cannot keep it waiting forever
C16_ExchangesAreBounded == PendingExchange => ENABLED RegistryStep

(***************************************************************************)
(* Concurrent callers: function_wrapper invocations of several tasks of    *)
(* one event loop, interleaved at their awaits, on a registry whose        *)
(* initialize() has returned.                                              *)
(***************************************************************************)
Callers == 1..MaxCallers

\* the two orders of the configs; every provider is discovered
ConcConfigs ==
    {<<Config("math", Server4), Config("misc", Server2)>>,
     <<Config("misc", Server2), Config("math", Server4)>>}

\* multiply(45, 45) structured, add(45, 45) as a call string, and a name the
\* catalog does not hold
ConcInputs ==
    {<<multiply, <<VInt(45), VInt(45)>>>>,
     <<CallString(add, <<VInt(45), VInt(45)>>), <<>>>>,
     <<nop, <<>>>>}

ConcEnvelopes ==
    {Envelope(<<TextPart(TextResult)>>), Envelope(<<TextPart(TextPlain)>>)}

\* the state after initialize() has discovered every provider
ConcInit ==
    /\ server_configs \in ConcConfigs
    /\ tool_map = Replay(EmptyCatalog, server_configs).tool_map
    /\ server_tools = Replay(EmptyCatalog, server_configs).server_tools
    /\ init_pc = "done"
    /\ init_i = Len(server_configs) + 1
    /\ log = [i \in 1..Len(server_configs) |-> [received |-> TRUE, error |-> FALSE]]
    /\ call = IdleCall
    /\ sessions = {}
    /\ calls = [c \in Callers |-> IdleCall]
    /\ runs = <<>>
    /\ LimiterInit(DefaultRequestsPerMinute)
    /\ AgentInit

\* SessionKey with one session kept by the registry for all its callers
SessionKey_Shared(c) == 1

\* lines 151-152: read, write and session are locals of the call that
\* entered the async with blocks
SessionKey(c) == c

\* the invocation of caller c fails with an exception of the provider side
ConcRaise(c, type, what) ==
    calls' = [calls EXCEPT ![c].pc = "done",
                ![c].result = Raised(Err(type, what, calls[c].name, 0, 0))]

\* caller c calls function_wrapper(tool_name, *args): lines 175-212 up to the
\* first await
ConcFunctionWrapper(c, tool_name, args) ==
    /\ calls[c].pc = "idle"
    /\ calls' = [calls EXCEPT ![c] =
                   LookupAndCall(tool_map, tool_name, args,
                                 ParseCallSyntax(tool_name, args))]
    /\ UNCHANGED sessions
    /\ UNCHANGED <<runs, limiter_vars, agent_vars>>
    /\ UNCHANGED <<server_configs, tool_map, server_tools, init_pc, init_i, log, call>>

\* line 151 for caller c
ConcConnect(c, ok) ==
    /\ calls[c].pc = "connect"
    /\ IF ok THEN /\ calls' = [calls EXCEPT ![c].pc = "handshake"]
                  /\ OpenSession(SessionKey(c), calls[c].opened[1])
       ELSE ConcRaise(c, "ProviderError", "start") /\ UNCHANGED sessions
    /\ UNCHANGED <<runs, limiter_vars, agent_vars>>
    /\ UNCHANGED <<server_configs, tool_map, server_tools, init_pc, init_i, log, call>>

\* lines 153-154 for caller c
ConcHandshake(c, ok) ==
    /\ calls[c].pc = "handshake"
    /\ IF ok
       THEN /\ calls' = [calls EXCEPT ![c].pc = "request",
                           ![c].requests = Append(@, [session |-> 1,
                                                      method |-> "call_tool",
                                                      name |-> calls[c].name,
                                                      arguments |-> calls[c].params])]
            /\ Exchange(SessionKey(c), <<"initialize", "call_tool">>)
       ELSE ConcRaise(c, "ProviderError", "handshake") /\ CloseSession(SessionKey(c))
    /\ UNCHANGED <<runs, limiter_vars, agent_vars>>
    /\ UNCHANGED <<server_configs, tool_map, server_tools, init_pc, init_i, log, call>>

\* line 154 and lines 214-227 for caller c
ConcRespond(c, envelope) ==
    /\ calls[c].pc = "request"
    /\ calls' = [calls EXCEPT ![c].pc = "done", ![c].envelope = <<envelope>>,
                   ![c].result = Normalize(envelope)]
    /\ CloseSession(SessionKey(c))
    /\ UNCHANGED <<runs, limiter_vars, agent_vars>>
    /\ UNCHANGED <<server_configs, tool_map, server_tools, init_pc, init_i, log, call>>

\* line 154 for caller c: the transport breaks before the answer
ConcFail(c) ==
    /\ calls[c].pc = "request"
    /\ ConcRaise(c, "ProviderError", "transport")
    /\ CloseSession(SessionKey(c))
    /\ UNCHANGED <<runs, limiter_vars, agent_vars>>
    /\ UNCHANGED <<server_configs, tool_map, server_tools, init_pc, init_i, log, call>>

\* the task of caller c is cancelled at one of its awaits
ConcCancel(c) ==
    /\ calls[c].pc \in {"connect", "handshake", "request"}
    /\ ConcRaise(c, "CancelledError", "cancelled")
    /\ CloseSession(SessionKey(c))
    /\ UNCHANGED <<runs, limiter_vars, agent_vars>>
    /\ UNCHANGED <<server_configs, tool_map, server_tools, init_pc, init_i, log, call>>

\* caller c has the result (or the exception) of its invocation
ConcReturn(c) ==
    /\ calls[c].pc = "done"
    /\ calls' = [calls EXCEPT ![c] = IdleCall]
    /\ UNCHANGED sessions
    /\ UNCHANGED <<runs, limiter_vars, agent_vars>>
    /\ UNCHANGED <<server_configs, tool_map, server_tools, init_pc, init_i, log, call>>

ConcNext ==
    \/ \E c \in Callers, in \in ConcInputs : ConcFunctionWrapper(c, in[1], in[2])
    \/ \E c \in Callers, ok \in BOOLEAN : ConcConnect(c, ok)
    \/ \E c \in Callers, ok \in BOOLEAN : ConcHandshake(c, ok)
    \/ \E c \in Callers, e \in ConcEnvelopes : ConcRespond(c, e)
    \/ \E c \in Callers : ConcFail(c)
    \/ \E c \in Callers : ConcCancel(c)
    \/ \E c \in Callers : ConcReturn(c)

ConcSpec == ConcInit /\ [][ConcNext]_vars

\* what function_wrapper does with the input of invocation k before its
\* first await, computed as for a single caller
Alone(k) ==
    LookupAndCall(tool_map, k.tool_name, k.args,
                  ParseCallSyntax(k.tool_name, k.args))

\* invocation k is where, and has returned what, it would have alone with
\* the same input and the same behaviour of its provider
AsAlone(k) ==
    /\ k.name = Alone(k).name
    /\ k.params = Alone(k).params
    /\ k.opened = Alone(k).opened
    /\ \A r \in 1..Len(k.requests) :
         k.requests[r].name = k.name /\ k.requests[r].arguments = k.params
    /\ k.pc = "done" =>
         IF Alone(k).pc = "done" THEN k.result = Alone(k).result
         ELSE IF k.envelope # <<>> THEN k.result = Normalize(k.envelope[1])
         ELSE /\ k.result.kind = "error"
              /\ k.result.value.type \in {"ProviderError", "CancelledError"}
              /\ k.result.value.name = k.name

\* the sessions caller c holds
HeldBy(c) == {s \in sessions : s.owner = c}

\* C15: concurrent function_wrapper calls are independent: while a call
\* awaits its provider it holds one session of its own, to the owner of its
\* tool, and none otherwise; each call is where, and returns what, it would
\* alone, whatever the others do (fail, hang or finish); the catalog is the
\* one initialize() built
C15_ConcurrentInvokesIndependent ==
    /\ \A c \in Callers :
         /\ calls[c].pc \in {"handshake", "request"} =>
              /\ Cardinality(HeldBy(c)) = 1
              /\ \A s \in HeldBy(c) : s.script = calls[c].opened[1]
         /\ calls[c].pc \in {"idle", "connect", "done"} => HeldBy(c) = {}
         /\ calls[c].pc # "idle" => AsAlone(calls[c])
    /\ Cardinality(sessions) <= MaxCallers
    /\ Catalog = Replay(EmptyCatalog, server_configs)
    /\ init_pc = "done"

\* caller 1 waits for an answer that does not come while caller 2, which
\* called the same tool after it, has its value
C15_Witness ==
    /\ calls[1].pc = "request"
    /\ calls[1].name = multiply
    /\ calls[2].pc = "done"
    /\ calls[2].name = multiply
    /\ calls[2].result.kind = "value"
    /\ Cardinality(sessions) = 1

\* the config of provider id p
ConfigOf(p) == CHOOSE c \in Range(server_configs) : c.id = p

\* the payload was built from the parameter names of this schema
BuiltFrom(payload, schema) ==
    IF HasInputProperty(schema)
    THEN WrappedForm(payload) /\ Keys(payload[1][2].v) = ParamNames(schema)
    ELSE Keys(payload) = ParamNames(schema)

\* function_wrapper is called with a catalog tool and enters call_tool:
\* lines 175-212 up to the first await
InvokeStep ==
    /\ call.pc = "idle"
    /\ call'.via = "function_wrapper"
    /\ call'.opened # <<>>

\* invocation k was marshaled against this schema and opened its session to
\* the provider started from this script
Uses(k, schema, script) ==
    /\ k.opened = <<script>>
    /\ BuiltFrom(k.params, schema)

\* invocation k of t.name uses the descriptor t listed for provider p, and p
ListedIsUsed(k, p, t) ==
    /\ Get(tool_map, t.name).tool = t
    /\ Get(tool_map, t.name).config.id = p
    /\ Uses(k, t.inputSchema, ConfigOf(p).script)

\* C21 as stated: what is listed for a provider is what an invoke by that
\* name uses, also when another provider declares the same name
C21_ListedToolIsWhatInvokeUses ==
    [][InvokeStep =>
         \A i \in 1..Len(server_tools) :
           \A j \in 1..Len(server_tools[i][2]) :
             server_tools[i][2][j].name = call'.name =>
               ListedIsUsed(call', server_tools[i][1], server_tools[i][2][j])]_vars

\* invocation k of t.name uses the descriptor and the config of the
\* discovered provider latest in declaration order that declares the name;
\* that is t and p when no provider after p declares it
ListedUsesLast(k, p, t, last) ==
    /\ Get(tool_map, t.name)
         = Entry(server_configs[last], DescriptorOf(last, t.name))
    /\ Uses(k, DescriptorOf(last, t.name).inputSchema, server_configs[last].script)
    /\ server_configs[last].id = p => ListedIsUsed(k, p, t)

\* C21: for every tool t listed for a provider p, an invoke of t.name is
\* marshaled against the schema of, and dispatched to, the last discovered
\* provider that declares t.name: t's own schema and p when no provider
\* discovered after p declares that name
C21_InvokeUsesLastDeclarer ==
    [][InvokeStep =>
         \A i \in 1..Len(server_tools) :
           \A j \in 1..Len(server_tools[i][2]) :
             server_tools[i][2][j].name = call'.name =>
               ListedUsesLast(call', server_tools[i][1], server_tools[i][2][j],
                              LastDeclarer(call'.name))]_vars

\* multiply is listed for the first provider with its flat schema, and the
\* invoke of multiply in flight goes to the second provider with the payload
\* of the wrapped schema
C21_Witness ==
    /\ Len(server_configs) = 2
    /\ server_configs[1].script = Server4
    /\ server_configs[2].script = Server2
    /\ Discovered = {1, 2}
    /\ call.via = "function_wrapper"
    /\ call.pc = "request"
    /\ call.name = multiply
    /\ call.opened = <<Server2>>
    /\ WrappedForm(call.params)
    /\ \E k \in 1..Len(Get(server_tools, "math")) :
         /\ Get(server_tools, "math")[k].name = multiply
         /\ ~HasInputProperty(Get(server_tools, "math")[k].inputSchema)

\* the configs whose discovery attempt ended in an error (lines 122, 124),
\* at whatever point: start, handshake, listing or teardown
Errored == {i \in 1..Len(server_configs) : log[i].error}

\* C22: the catalog update for one provider is all-or-nothing: when
\* initialize() has returned, the catalog is the one built from all the tools
\* of the providers whose attempt succeeded and nothing of those whose
\* attempt failed at any point
C22_AllOrNothing ==
    init_pc = "done" =>
      Catalog = Replay(EmptyCatalog, Without(server_configs, 1, Errored))

(***************************************************************************)
(* initialize() run again on the same registry.                            *)
(***************************************************************************)
\* initialize() is called again after it has returned: tool_map and
\* server_tools are the attributes __init__ created (lines 86-88), the loop
\* of line 95 starts over; log is what this run prints
InitializeAgain ==
    /\ init_pc = "done"
    /\ Len(runs) < MaxRuns
    /\ runs' = Append(runs, [catalog |-> Catalog, discovered |-> Discovered])
    /\ log' = [i \in 1..Len(server_configs) |-> [received |-> FALSE, error |-> FALSE]]
    /\ LoopTo(1)
    /\ UNCHANGED <<server_configs, tool_map, server_tools, call, sessions, calls,
                   limiter_vars, agent_vars>>

ReinitNext ==
    \/ Initialize
    \/ \E ok \in BOOLEAN : InitConnect(ok)
    \/ \E ok \in BOOLEAN : InitHandshake(ok)
    \/ \E ok \in BOOLEAN : InitListTools(ok)
    \/ \E ok \in BOOLEAN : InitTeardown(ok)
    \/ InitializeAgain

ReinitSpec == Init /\ [][ReinitNext]_vars

\* the run of initialize() before the current one
PreviousRun == runs[Len(runs)]

\* C23: a second run of initialize() in which the same providers answer the
\* same tool lists leaves tool_map and server_tools as the first run left
\* them
C23_SecondRunLeavesCatalog ==
    (/\ init_pc = "done"
     /\ runs # <<>>
     /\ Discovered = PreviousRun.discovered)
      => Catalog = PreviousRun.catalog

(***************************************************************************)
(* Invokes that interleave with a running initialize(): the code has no    *)
(* readiness gate, function_wrapper reads tool_map as it is when called.   *)
(***************************************************************************)
\* multiply(45, 45) and thumb(45) structured, add(45, 45) as a call string
EarlyInputs ==
    {<<multiply, <<VInt(45), VInt(45)>>>>,
     <<thumb, <<VInt(45)>>>>,
     <<CallString(add, <<VInt(45), VInt(45)>>), <<>>>>}

\* function_wrapper(tool_name, *args) called whatever initialize() is doing:
\* lines 175-212 run up to the first await (line 151) without a suspension
\* point, on the tool_map of that moment
EarlyFunctionWrapper(tool_name, args) ==
    /\ call.pc = "idle"
    /\ call' = LookupAndCall(tool_map, tool_name, args,
                             ParseCallSyntax(tool_name, args))
    /\ UNCHANGED sessions
    /\ UNCHANGED <<calls, runs, limiter_vars, agent_vars, server_configs,
                   tool_map, server_tools, init_pc, init_i, log>>

EarlyNext ==
    \/ Initialize
    \/ \E ok \in BOOLEAN : InitConnect(ok)
    \/ \E ok \in BOOLEAN : InitHandshake(ok)
    \/ \E ok \in BOOLEAN : InitListTools(ok)
    \/ \E ok \in BOOLEAN : InitTeardown(ok)
    \/ \E in \in EarlyInputs : EarlyFunctionWrapper(in[1], in[2])
    \/ \E ok \in BOOLEAN : CallConnect(ok)
    \/ \E ok \in BOOLEAN : CallHandshake(ok)
    \/ \E e \in ConcEnvelopes : CallRespond(e)
    \/ CallFail
    \/ CallReturn

EarlySpec == Init /\ [][EarlyNext]_vars

\* the provider started from script declares tool
Declares(script, tool) ==
    \E j \in 1..Len(ListTools(script)) : ListTools(script)[j] = tool

\* C24: in every state, those in the middle of initialize() included, each
\* tool_map entry holds a descriptor together with the config of the
\* provider that declared it, under the descriptor's name; and an invoke
\* that has entered call_tool, whatever initialize() has done before or
\* since, was marshaled with the schema of a tool of that name declared by
\* the provider it opened its session to
C24_EntryPairsToolWithItsProvider ==
    /\ \A j \in 1..Len(tool_map) :
         /\ tool_map[j][2].tool.name = tool_map[j][1]
         /\ tool_map[j][2].config \in Range(server_configs)
         /\ Declares(tool_map[j][2].config.script, tool_map[j][2].tool)
    /\ (call.via = "function_wrapper" /\ call.opened # <<>>) =>
         \E j \in 1..Len(ListTools(call.opened[1])) :
           /\ ListTools(call.opened[1])[j].name = call.name
           /\ BuiltFrom(call.params, ListTools(call.opened[1])[j].inputSchema)

\* the invoke of multiply went to the first provider with the payload of its
\* flat schema while initialize() was at the second provider, which has
\* since registered its own multiply over it
C24_Witness ==
    /\ init_pc = "teardown"
    /\ init_i = 2
    /\ server_configs[1].script = Server4
    /\ server_configs[2].script = Server2
    /\ call.via = "function_wrapper"
    /\ call.pc = "request"
    /\ call.name = multiply
    /\ call.opened = <<Server4>>
    /\ ~WrappedForm(call.params)
    /\ Get(tool_map, multiply).config = server_configs[2]

(***************************************************************************)
(* mcp_server_3.py: RateLimiter.acquire, called by the tasks of one event  *)
(* loop; the only suspension point of acquire() is the sleep of line 62.   *)
(***************************************************************************)
\* the clock advances by a third of a minute
TickSeconds == Minute \div 3

\* a registry with no providers, which takes no part
NoRegistry ==
    /\ server_configs = <<>>
    /\ tool_map = <<>>
    /\ server_tools = <<>>
    /\ init_pc = "idle"
    /\ init_i = 0
    /\ log = <<>>
    /\ call = IdleCall
    /\ sessions = {}
    /\ calls = <<>>
    /\ runs = <<>>

IdleAcquire == [pc |-> "idle", now |-> 0, wake |-> 0]

LimiterSpecInit ==
    /\ NoRegistry
    /\ AgentInit
    /\ limiter \in {RateLimiter(n) : n \in 1..MaxRequestsPerMinute}
    /\ now = 0
    /\ acquiring = [c \in Callers |-> IdleAcquire]
    /\ granted = <<>>

\* lines 54-56: the requests of the last minute
Pruned(requests, t) == SelectSeq(requests, LAMBDA req : t - req < Minute)

\* line 60: wait_time
WaitTime(requests, t) == Minute - (t - requests[1])

\* lines 58-62: the limit is reached and the wait is positive
MustWait(lim, kept, t) ==
    Len(kept) >= lim.requests_per_minute /\ WaitTime(kept, t) > 0

\* acquire() calls made so far: returned or asleep
AcquireCalls ==
    Len(granted) + Cardinality({c \in DOMAIN acquiring : acquiring[c].pc = "sleep"})

\* lines 52-65 from the pruned list on: sleep, or line 65 and return
AcquireFrom(c, kept) ==
    IF MustWait(limiter, kept, now)
    THEN /\ limiter' = [limiter EXCEPT !.requests = kept]
         /\ acquiring' = [acquiring EXCEPT
                            ![c] = [pc |-> "sleep", now |-> now,
                                    wake |-> now + WaitTime(kept, now)]]
         /\ UNCHANGED granted
    ELSE /\ limiter' = [limiter EXCEPT !.requests = Append(kept, now)]
         /\ granted' = Append(granted, now)
         /\ UNCHANGED acquiring

\* caller c calls acquire(): lines 52-62 up to the sleep, or to the return
AcquireEnter(c) ==
    /\ acquiring[c].pc = "idle"
    /\ AcquireCalls < MaxAcquires
    /\ AcquireFrom(c, Pruned(limiter.requests, now))
    /\ UNCHANGED <<now, registry_vars, agent_vars>>

\* the sleep of caller c is over: line 65 appends the now read at line 52,
\* and acquire() returns
AcquireWake(c) ==
    /\ acquiring[c].pc = "sleep"
    /\ now >= acquiring[c].wake
    /\ limiter' = [limiter EXCEPT !.requests = Append(@, acquiring[c].now)]
    /\ granted' = Append(granted, now)
    /\ acquiring' = [acquiring EXCEPT ![c] = IdleAcquire]
    /\ UNCHANGED <<now, registry_vars, agent_vars>>

\* time passes
Tick ==
    /\ now + TickSeconds <= MaxTicks * TickSeconds
    /\ now' = now + TickSeconds
    /\ UNCHANGED <<limiter, acquiring, granted, registry_vars, agent_vars>>

LimiterNext ==
    \/ \E c \in Callers : AcquireEnter(c)
    \/ \E c \in Callers : AcquireWake(c)
    \/ Tick

LimiterSpec == LimiterSpecInit /\ [][LimiterNext]_vars

\* the number of grants in the minute that starts at time t
GrantsInMinuteFrom(t) ==
    Cardinality({j \in 1..Len(granted) : t <= granted[j] /\ granted[j] < t + Minute})

\* C25: at most requests_per_minute acquire() calls return within any window
\* of 60 seconds (it is enough to look at the windows that start at a grant)
C25_AtMostLimitPerMinute ==
    \A i \in 1..Len(granted) :
      GrantsInMinuteFrom(granted[i]) <= limiter.requests_per_minute

(***************************************************************************)
(* duckduckgo_search_results invoked through MultiMCP: call_tool starts    *)
(* mcp_server_3.py anew for every invoke (multiMCP.py lines 144-154), and  *)
(* the module creates its searcher, with a new RateLimiter, when it starts *)
(* (mcp_server_3.py lines 272-274, 81).                                    *)
(***************************************************************************)
Server3 == "mcp_server_3.py"

\* one search more than the limit allows
MaxSearches == DefaultRequestsPerMinute + 1

SearchInit ==
    /\ NoRegistry
    /\ AgentInit
    /\ limiter = RateLimiter(DefaultRequestsPerMinute)
    /\ now = 0
    /\ acquiring = [c \in {1} |-> IdleAcquire]
    /\ granted = <<>>

\* function_wrapper("duckduckgo_search_results", ...) reaches call_tool: the
\* provider process starts, and with it a RateLimiter with no requests
SearchInvoke ==
    /\ sessions = {}
    /\ Len(granted) < MaxSearches
    /\ OpenSession("invoke", Server3)
    /\ limiter' = RateLimiter(DefaultRequestsPerMinute)
    /\ UNCHANGED <<now, acquiring, granted, agent_vars>>
    /\ UNCHANGED <<server_configs, tool_map, server_tools, init_pc, init_i, log,
                   call, calls, runs>>

\* the tool handler runs searcher.search: line 123 acquires, and the search
\* is issued
SearchAcquire ==
    /\ sessions # {}
    /\ limiter.requests = <<>>
    /\ AcquireFrom(1, Pruned(limiter.requests, now))
    /\ UNCHANGED <<now, registry_vars, agent_vars>>

\* the answer is returned and the async with blocks of call_tool are left:
\* the process ends
SearchReturn ==
    /\ sessions # {}
    /\ limiter.requests # <<>>
    /\ CloseSession("invoke")
    /\ UNCHANGED <<limiter_vars, agent_vars>>
    /\ UNCHANGED <<server_configs, tool_map, server_tools, init_pc, init_i, log,
                   call, calls, runs>>

\* time passes, within the first minute
SearchTick ==
    /\ now + TickSeconds < Minute
    /\ now' = now + TickSeconds
    /\ UNCHANGED <<limiter, acquiring, granted, registry_vars, agent_vars>>

SearchNext ==
    \/ SearchInvoke
    \/ SearchAcquire
    \/ SearchReturn
    \/ SearchTick

SearchSpec == SearchInit /\ [][SearchNext]_vars

ListObject(owner, items) == [owner |-> owner, items |-> items]

\* the lists the callers of the session have built
CallerLists == {i \in 1..Len(lists) : lists[i].owner = "caller"}

\* what a plan version holds as its steps, given the list passed in and a
\* fresh list object: PlanSteps without the copy of line 168
PlanSteps_Alias(steps, fresh) == steps

\* line 168: "steps": steps.copy()
PlanSteps(steps, fresh) == fresh

\* bool(v) as the or of lines 235-236 takes it
Truthy(v) ==
    IF v.t = "none" THEN FALSE
    ELSE IF v.t = "float" THEN v.v # "0.0"
    ELSE IF v.t = "bool" THEN v.v
    ELSE v.v # <<>>

\* a or b
Or(a, b) == IF Truthy(a) THEN a ELSE b

\* line 225: fallback_confidence: float = 0.95
FallbackConfidence == VFloat("0.95")

Perception(goal, reasoning, summary, confidence) ==
    [original_goal_achieved |-> goal, reasoning |-> reasoning,
     solution_summary |-> summary, confidence |-> confidence]

\* the perceptions and final answers mark_complete is called with
Perceptions ==
    {Perception(g, VStr(<<"r">>), sm, cf) :
       g \in BOOLEAN, sm \in {VStr(<<>>), VStr(<<"s">>)},
       cf \in {VStr(<<>>), VStr(<<"0", ".", "9">>)}}

FinalAnswers == {VNone, VStr(<<>>), VStr(<<"h", "i">>)}

AgentSpecInit ==
    /\ NoRegistry
    /\ LimiterInit(DefaultRequestsPerMinute)
    /\ AgentInit

\* a caller builds a list of n steps
NewList(n) ==
    /\ Cardinality(CallerLists) < MaxPlans
    /\ lists' = Append(lists, ListObject("caller", [k \in 1..n |-> "step"]))
    /\ UNCHANGED <<agent, trace, registry_vars, limiter_vars>>

\* a caller appends a step to one of its lists
ListAppend(i) ==
    /\ i \in CallerLists
    /\ Len(lists[i].items) < MaxSteps
    /\ lists' = [lists EXCEPT ![i].items = Append(@, "step")]
    /\ UNCHANGED <<agent, trace, registry_vars, limiter_vars>>

\* a caller removes the last step of one of its lists
ListPop(i) ==
    /\ i \in CallerLists
    /\ lists[i].items # <<>>
    /\ lists' = [lists EXCEPT ![i].items = SubSeq(@, 1, Len(@) - 1)]
    /\ UNCHANGED <<agent, trace, registry_vars, limiter_vars>>

\* lines 155-171: add_plan_version(plan_texts, steps)
AddPlanVersion(plan_texts, steps) ==
    /\ plan_texts \in CallerLists
    /\ steps \in CallerLists
    /\ Len(agent.plan_versions) < MaxPlans
    /\ lists' = Append(lists, ListObject("session", lists[steps].items))
    /\ agent' = [agent EXCEPT !.plan_versions =
                   Append(@, [plan_text |-> plan_texts,
                              steps |-> PlanSteps(steps, Len(lists) + 1)])]
    /\ trace' = [trace EXCEPT !.added = Append(@, Len(lists[steps].items))]
    /\ UNCHANGED <<registry_vars, limiter_vars>>

RECURSIVE StepCount(_, _)
\* lines 173-180: sum(len(v["steps"]) for v in self.plan_versions)
StepCount(versions, heap) ==
    IF versions = <<>> THEN 0
    ELSE Len(heap[Head(versions).steps].items) + StepCount(Tail(versions), heap)

\* get_next_step_index()
GetNextStepIndex == StepCount(agent.plan_versions, lists)

\* lines 225-240: mark_complete(perception, final_answer)
MarkComplete(perception, final_answer) ==
    /\ agent' = [agent EXCEPT !.state =
                   [original_goal_achieved |-> perception.original_goal_achieved,
                    final_answer |-> Or(final_answer, perception.solution_summary),
                    confidence |-> Or(perception.confidence, FallbackConfidence),
                    reasoning_note |-> perception.reasoning,
                    solution_summary |-> perception.solution_summary]]
    /\ trace' = [trace EXCEPT !.marked = <<[perception |-> perception,
                                           final_answer |-> final_answer]>>]
    /\ UNCHANGED <<lists, registry_vars, limiter_vars>>

\* lines 203-223: get_snapshot_summary(), without the session_id, the query
\* and the completed steps
GetSnapshotSummary ==
    [final_plan |-> IF agent.plan_versions = <<>> THEN <<>>
                    ELSE lists[agent.plan_versions[Len(agent.plan_versions)].plan_text].items,
     final_answer |-> agent.state.final_answer,
     confidence |-> agent.state.confidence,
     reasoning_note |-> agent.state.reasoning_note]

\* the callers build and change lists and add plan versions
PlanNext ==
    \/ \E n \in 0..MaxSteps : NewList(n)
    \/ \E i \in 1..Len(lists) : ListAppend(i)
    \/ \E i \in 1..Len(lists) : ListPop(i)
    \/ \E t, i \in 1..Len(lists) : AddPlanVersion(t, i)

PlanSpec == AgentSpecInit /\ [][PlanNext]_vars

AgentNext ==
    \/ PlanNext
    \/ \E pn \in Perceptions, fa \in FinalAnswers : MarkComplete(pn, fa)

AgentSpec == AgentSpecInit /\ [][AgentNext]_vars

RECURSIVE SumSeq(_)
SumSeq(q) == IF q = <<>> THEN 0 ELSE Head(q) + SumSeq(Tail(q))

\* C27: get_next_step_index() is the sum, over the plan versions added so
\* far, of the length each step list had when it was added, whatever the
\* callers do to their lists afterwards, and it never decreases
C27_NextStepIndexIsStepsAdded ==
    [][/\ GetNextStepIndex' = SumSeq(trace'.added)
       /\ Len(agent'.plan_versions) = Len(trace'.added)
       /\ GetNextStepIndex' >= GetNextStepIndex]_vars

\* two plan versions were added from the same list of the caller, which had
\* two steps at the first call and has none now
C27_Witness ==
    /\ trace.added = <<2, 0>>
    /\ Len(agent.plan_versions) = 2
    /\ \E i \in CallerLists : lists[i].items = <<>>
    /\ Cardinality(CallerLists) = 1
    /\ GetNextStepIndex = 2

\* the last call of mark_complete
Marked == trace.marked[1]

\* C28: after mark_complete(perception, final_answer), final_answer in the
\* state is the final_answer given whenever one was given (not None) and
\* the perception's solution_summary only otherwise; original_goal_achieved,
\* reasoning_note and solution_summary are the perception's, and the
\* snapshot summary reports the same final_answer
C28_FinalAnswerAsGiven ==
    trace.marked # <<>> =>
      /\ agent.state.final_answer
           = IF Marked.final_answer # VNone THEN Marked.final_answer
             ELSE Marked.perception.solution_summary
      /\ agent.state.original_goal_achieved = Marked.perception.original_goal_achieved
      /\ agent.state.reasoning_note = Marked.perception.reasoning
      /\ agent.state.solution_summary = Marked.perception.solution_summary
      /\ GetSnapshotSummary.final_answer = agent.state.final_answer

====
